---- MODULE Spec2Model ----
(***************************************************************************)
(* A model of server.js, the HTTP facade over yt-dlp: the Info Cache in    *)
(* front of getVideoInfo, the download handlers with their exec callbacks  *)
(* and timers, and the cleanup passes over the downloads directory.        *)
(*                                                                         *)
(* Strings whose content the code inspects (URLs, titles, file names,      *)
(* error messages) are sequences of one-character strings, so that         *)
(* includes / startsWith / endsWith are computed as JavaScript computes    *)
(* them.  A fixed piece of text that no test in the code can match inside  *)
(* is written as one element.                                              *)
(***************************************************************************)
EXTENDS Integers, Sequences, FiniteSets, TLC

VARIABLES
    now,             \* Date.now(), in milliseconds
    videoInfoCache,  \* the Map videoInfoCache: url -> [data, timestamp]
    req,             \* the requests: handler position, response, child, timers
    fs,              \* the directories: path below downloadsDir -> (name -> size)
    sw,              \* the pass applied to a drawn directory (cleanup specification)
    fm               \* the last two format selections (format specification)

vars == <<now, videoInfoCache, req, fs, sw, fm>>

-----------------------------------------------------------------------------
(* String.prototype.includes / startsWith / endsWith *)

Includes(s, p) ==
    \E i \in 1..(Len(s) - Len(p) + 1) : SubSeq(s, i, i + Len(p) - 1) = p

StartsWith(s, p) ==
    /\ Len(p) <= Len(s)
    /\ SubSeq(s, 1, Len(p)) = p

EndsWith(s, p) ==
    /\ Len(p) <= Len(s)
    /\ SubSeq(s, Len(s) - Len(p) + 1, Len(s)) = p

-----------------------------------------------------------------------------
(* sanitizeFilename: drop every character outside [\w\s.-], then turn each *)
(* run of whitespace into one underscore.                                  *)

\* \w
WordChars ==
    {"a", "b", "c", "d", "e", "f", "g", "h", "i", "j", "k", "l", "m",
     "n", "o", "p", "q", "r", "s", "t", "u", "v", "w", "x", "y", "z",
     "A", "B", "C", "D", "E", "F", "G", "H", "I", "J", "K", "L", "M",
     "N", "O", "P", "Q", "R", "S", "T", "U", "V", "W", "X", "Y", "Z",
     "0", "1", "2", "3", "4", "5", "6", "7", "8", "9", "_"}

SpaceChars == {" "}

KeptChar(c) == c \in WordChars \cup SpaceChars \cup {".", "-"}

RECURSIVE CollapseSpaces(_)
CollapseSpaces(s) ==
    IF s = <<>> THEN <<>>
    ELSE IF Head(s) \in SpaceChars
         THEN IF Len(s) > 1 /\ s[2] \in SpaceChars
              THEN CollapseSpaces(Tail(s))
              ELSE <<"_">> \o CollapseSpaces(Tail(s))
         ELSE <<Head(s)>> \o CollapseSpaces(Tail(s))

sanitizeFilename(filename) == CollapseSpaces(SelectSeq(filename, KeptChar))

-----------------------------------------------------------------------------
(* File names *)

EXT_MP4  == <<".", "m", "p", "4">>
EXT_MP3  == <<".", "m", "p", "3">>
EXT_WEBM == <<".", "w", "e", "b", "m">>
EXT_M4A  == <<".", "m", "4", "a">>
EXT_PART == <<".", "p", "a", "r", "t">>
EXT_TEMP == <<".", "t", "e", "m", "p">>

FormatMarker(a, b, c) == <<".", "f", a, b, c>>

\* the substrings cleanupTempFiles looks for, besides a non-final '.mp4'
TempMarkers ==
    {EXT_TEMP, EXT_PART, EXT_WEBM, EXT_M4A,
     FormatMarker("1", "4", "0"), FormatMarker("3", "1", "3"),
     FormatMarker("4", "0", "1"), FormatMarker("1", "3", "7"),
     FormatMarker("1", "3", "6"), FormatMarker("1", "3", "5"),
     FormatMarker("2", "4", "4"), FormatMarker("2", "4", "7"),
     FormatMarker("2", "4", "8"), FormatMarker("2", "7", "1"),
     FormatMarker("3", "9", "8"), FormatMarker("3", "9", "9"),
     FormatMarker("4", "0", "0")}

Files(d) == DOMAIN d

Unlink(d, gone) == [f \in (DOMAIN d) \ gone |-> d[f]]

\* variant of the loop: the first unlinkSync that throws ends the loop
RECURSIVE UnlinkEach_StopOnError(_, _, _)
UnlinkEach_StopOnError(d, files, locked) ==
    IF files = {} THEN d
    ELSE LET file == CHOOSE f \in files : TRUE
         IN  IF file \in locked THEN d
             ELSE UnlinkEach_StopOnError(Unlink(d, {file}), files \ {file}, locked)

\* variant of the loop: it ends after the first file
UnlinkEach_OnlyFirst(d, files, locked) ==
    IF files = {} THEN d
    ELSE Unlink(d, {CHOOSE f \in files : TRUE} \ locked)

\* files.forEach(file => { try { fs.unlinkSync(...) } catch (e) { log } }):
\* unlinkSync throws for the files in `locked` and removes the others
RECURSIVE UnlinkEach(_, _, _)
UnlinkEach(d, files, locked) ==
    IF files = {} THEN d
    ELSE LET file == CHOOSE f \in files : TRUE
         IN  IF file \in locked
             THEN UnlinkEach(d, files \ {file}, locked)
             ELSE UnlinkEach(Unlink(d, {file}), files \ {file}, locked)

-----------------------------------------------------------------------------
(* The cleanup passes of a single-video download *)

IsTempFile(file, sanitizedTitle) ==
    /\ Includes(file, sanitizedTitle)
    /\ \/ \E m \in TempMarkers : Includes(file, m)
       \/ Includes(file, EXT_MP4) /\ ~EndsWith(file, EXT_MP4)

\* variant of the filter: the files a running child has written are left
tempFiles_SkipRunning(d, sanitizedTitle) ==
    {file \in Files(d) :
        /\ IsTempFile(file, sanitizedTitle)
        /\ ~\E r \in DOMAIN req :
               req[r].child = "running" /\ file \in req[r].wrote}

tempFiles(d, sanitizedTitle) ==
    {file \in Files(d) : IsTempFile(file, sanitizedTitle)}

cleanupTempFiles(d, sanitizedTitle, locked) ==
    UnlinkEach(d, tempFiles(d, sanitizedTitle), locked)

IsFinalMP4(file, sanitizedTitle) ==
    StartsWith(file, sanitizedTitle) /\ EndsWith(file, EXT_MP4)

finalMP4Files(d, sanitizedTitle) ==
    {file \in Files(d) : IsFinalMP4(file, sanitizedTitle)}

\* variant of the sort: ascending, the comparison of the sizes turned round
LargestFirst_SmallestFirst(d, candidates) ==
    {file \in candidates : \A g \in candidates : d[file] <= d[g]}

\* fileStats.sort((a, b) => b.size - a.size) is stable and readdirSync gives
\* no order, so any file of the largest size can come first.
LargestFirst(d, candidates) ==
    {file \in candidates : \A g \in candidates : d[g] <= d[file]}

remainingFiles(d, sanitizedTitle) ==
    {file \in Files(d) :
        Includes(file, sanitizedTitle) /\ ~EndsWith(file, EXT_MP4)}

\* the directories one run of the final cleanup timer can leave
finalCleanup(d, sanitizedTitle, locked) ==
    LET mp4s == finalMP4Files(d, sanitizedTitle)
        rest == remainingFiles(d, sanitizedTitle)
    IN  IF Cardinality(mp4s) > 1
        THEN {UnlinkEach(UnlinkEach(d, mp4s \ {keep}, locked), rest, locked) :
                 keep \in LargestFirst(d, mp4s)}
        ELSE {UnlinkEach(d, rest, locked)}

-----------------------------------------------------------------------------
(* Inputs: URLs, yt-dlp's answers *)

URL_VIDEO    == <<"v", "=", "1">>
URL_LIST     == <<"v", "=", "1", "&", "l", "i", "s", "t", "=", "x">>
URL_PLAYLIST == <<"p", "l", "a", "y", "l", "i", "s", "t", "?", "x">>
NO_URL       == <<>>

TITLE_A      == <<"a">>
TITLE_A_PART == <<"a", ".", "p", "a", "r", "t">>
TITLE_SPACED == <<"a", " ", " ", "?", "b">>
TITLE_SYMBOL == <<"?">>

\* one line of yt-dlp's --dump-json output: whether JSON.parse accepts it,
\* and the title of the object it yields (empty: no title)
JsonLine(title) == [json |-> TRUE, title |-> title]
GARBAGE_LINE    == [json |-> FALSE, title |-> <<>>]

STDERR_TEXT == <<"ERROR: Video unavailable">>

ExitOk(stdout)   == [exit |-> "ok", stdout |-> stdout, stderr |-> <<>>]
EXIT_NONZERO     == [exit |-> "nonzero", stdout |-> <<>>, stderr |-> STDERR_TEXT]
EXIT_MAXBUFFER   == [exit |-> "maxBuffer", stdout |-> <<>>, stderr |-> <<>>]
EXIT_KILLED      == [exit |-> "killed", stdout |-> <<>>, stderr |-> <<>>]

-----------------------------------------------------------------------------
(* Messages.  The substrings the catch blocks test for are spelled out. *)

P_PLAYLIST     == <<"p", "l", "a", "y", "l", "i", "s", "t">>
P_LIST         == <<"l", "i", "s", "t", "=">>
P_PLAYLIST_URL == <<"p", "l", "a", "y", "l", "i", "s", "t", " ", "U", "R", "L">>
P_MAXBUFFER    == <<"m", "a", "x", "B", "u", "f", "f", "e", "r">>
P_NO_OUTPUT    ==
    <<"N", "o", " ", "o", "u", "t", "p", "u", "t", " ", "f", "r", "o", "m",
      " ", "y", "t", "-", "d", "l", "p">>
P_INVALID_INFO ==
    <<"I", "n", "v", "a", "l", "i", "d", " ", "v", "i", "d", "e", "o", " ",
      "i", "n", "f", "o">>
P_JSON         == <<"J", "S", "O", "N">>

ERR_PLAYLIST ==
    <<"This is a ">> \o P_PLAYLIST_URL
        \o <<". Please use the playlist download option instead.">>
ERR_NO_OUTPUT == P_NO_OUTPUT
ERR_NO_TITLE  == P_INVALID_INFO \o <<" - no title found">>
ERR_JSON      == <<"Unexpected token in ">> \o P_JSON \o <<" at position 0">>

\* the error child_process.exec gives its callback
ExecError(result, command) ==
    IF result.exit = "maxBuffer"
    THEN <<"stdout ">> \o P_MAXBUFFER \o <<" length exceeded">>
    ELSE <<"Command failed: ">> \o command \o <<"\n">> \o result.stderr

MSG_URL_REQUIRED    == <<"URL is required">>
MSG_SELECT_PLAYLIST ==
    <<"This is a playlist URL. Please select \"Entire Playlist\" as download type.">>
MSG_INFO_TOO_LARGE  ==
    <<"Video info too large. Try a different video or check if it's a very long video.">>
MSG_NO_MP4          == <<"Download completed but MP4 file not found">>
MSG_VIDEO_TIMEOUT   == <<"Download timeout after 10 minutes">>
MSG_AUDIO_FAILED    == <<"Audio download failed">>
MSG_NO_AUDIO        == <<"Audio download completed but file not found">>
MSG_PLAYLIST_TIMEOUT == <<"Playlist download timeout after 30 minutes">>
MSG_PLAYLIST_FAILED == <<"Playlist download failed">>

\* the catch block of getVideoInfo
VideoInfoError(message) ==
    IF Includes(message, P_PLAYLIST_URL) THEN MSG_SELECT_PLAYLIST
    ELSE IF Includes(message, P_MAXBUFFER) THEN MSG_INFO_TOO_LARGE
    ELSE IF Includes(message, P_NO_OUTPUT)
    THEN <<"yt-dlp failed to get video information. Please check if the URL is valid.">>
    ELSE IF Includes(message, P_INVALID_INFO)
    THEN <<"Could not parse video information. The video might be private or unavailable.">>
    ELSE IF Includes(message, P_JSON)
    THEN <<"Failed to parse video information. The video might be restricted or unavailable.">>
    ELSE <<"Failed to get video info: ">> \o message

-----------------------------------------------------------------------------
(* Responses *)

NoRes ==
    [status |-> 0, kind |-> "none", error |-> <<>>, filename |-> <<>>,
     payload |-> {}]

ResError(status, message) ==
    [status |-> status, kind |-> "error", error |-> message,
     filename |-> <<>>, payload |-> {}]

ResInfo(data) ==
    [status |-> 200, kind |-> "info", error |-> <<>>, filename |-> <<>>,
     payload |-> {data}]

ResFile(file) ==
    [status |-> 200, kind |-> "file", error |-> <<>>, filename |-> file,
     payload |-> {}]

ResPlaylist(folder, counts) ==
    [status |-> 200, kind |-> "playlist", error |-> <<>>, filename |-> folder,
     payload |-> counts]

headersSent(rq) == rq.res.kind # "none"

-----------------------------------------------------------------------------
(* The Info Cache *)

CACHE_DURATION == 300000

\* videoInfoCache.get(cacheKey): no element when the key is absent
CachedInfo(url) ==
    IF url \in DOMAIN videoInfoCache THEN {videoInfoCache[url]} ELSE {}

\* variants of the freshness test: the comparison turned round, and the
\* boundary age counted as fresh
IsFresh_Inverted(entry, t) == (t - entry.timestamp) > CACHE_DURATION

IsFresh_Inclusive(entry, t) == (t - entry.timestamp) <= CACHE_DURATION

\* if (cached && (Date.now() - cached.timestamp) < CACHE_DURATION)
IsFresh(entry, t) == (t - entry.timestamp) < CACHE_DURATION

\* variant of the store: an entry that is there already is kept
CacheSet_KeepOld(cache, url, data, t) ==
    [k \in (DOMAIN cache) \cup {url} |->
        IF k \in DOMAIN cache THEN cache[k] ELSE [data |-> data, timestamp |-> t]]

\* videoInfoCache.set(url, { data: videoInfo, timestamp: Date.now() })
CacheSet(cache, url, data, t) ==
    [k \in (DOMAIN cache) \cup {url} |->
        IF k = url THEN [data |-> data, timestamp |-> t] ELSE cache[k]]

\* variant of the playlist test: only the word 'playlist' is looked for
IsPlaylistUrl_OnlyPlaylist(url) == Includes(url, P_PLAYLIST)

\* url.includes('playlist') || url.includes('list=')
IsPlaylistUrl(url) == Includes(url, P_PLAYLIST) \/ Includes(url, P_LIST)

VideoInfoCommand(url) ==
    <<"yt-dlp --dump-json --no-warnings --no-playlist \"">> \o url \o <<"\"">>

\* variant of the parse: of several lines the last one is taken
ParseVideoInfo_LastLine(url, result) ==
    IF result.exit # "ok"
    THEN [ok |-> FALSE, data |-> {},
          message |-> ExecError(result, VideoInfoCommand(url))]
    ELSE IF result.stdout = <<>>
    THEN [ok |-> FALSE, data |-> {}, message |-> ERR_NO_OUTPUT]
    ELSE LET lines == result.stdout
             info  == lines[Len(lines)]
         IN  IF ~info.json
             THEN [ok |-> FALSE, data |-> {}, message |-> ERR_JSON]
             ELSE IF info.title = <<>>
             THEN [ok |-> FALSE, data |-> {}, message |-> ERR_NO_TITLE]
             ELSE [ok |-> TRUE, data |-> {[title |-> info.title]},
                   message |-> <<>>]

\* getVideoInfo from the exec result to the return or the throw
ParseVideoInfo(url, result) ==
    IF result.exit # "ok"
    THEN [ok |-> FALSE, data |-> {},
          message |-> ExecError(result, VideoInfoCommand(url))]
    ELSE IF result.stdout = <<>>
    THEN [ok |-> FALSE, data |-> {}, message |-> ERR_NO_OUTPUT]
    ELSE LET lines == result.stdout
             info  == IF Len(lines) > 1 THEN lines[1] ELSE Head(lines)
         IN  IF ~info.json
             THEN [ok |-> FALSE, data |-> {}, message |-> ERR_JSON]
             ELSE IF info.title = <<>>
             THEN [ok |-> FALSE, data |-> {}, message |-> ERR_NO_TITLE]
             ELSE [ok |-> TRUE, data |-> {[title |-> info.title]},
                   message |-> <<>>]

-----------------------------------------------------------------------------
(* BuildInvocation: the quality selector to the format selector *)

FORMAT_360  == <<"18">>
FORMAT_2160 == <<"313+140/401+140/bestvideo[height<=2160]+bestaudio">>
FORMAT_1440 == <<"271+140/400+140/bestvideo[height<=1440]+bestaudio">>
FORMAT_1080 == <<"137+140/248+140/399+140/bestvideo[height<=1080]+bestaudio">>
FORMAT_720  == <<"136+140/247+140/398+140/bestvideo[height<=720]+bestaudio">>
FORMAT_480  == <<"135+140/244+140/397+140/bestvideo[height<=480]+bestaudio">>

\* the chain of POST /api/download/video, handleVideoDownload and
\* handlePlaylistDownload; "absent" is a body without quality
\* variant of the chain: the else branch falls to the 360p format
videoFormatSelector_Default360(quality) ==
    LET q == IF quality = "absent" THEN "highest" ELSE quality
    IN  IF q = "360p" \/ q = "240p" \/ q = "144p" THEN FORMAT_360
        ELSE IF q = "4k" THEN FORMAT_2160
        ELSE IF q = "1440p" THEN FORMAT_1440
        ELSE IF q = "1080p" THEN FORMAT_1080
        ELSE IF q = "720p" THEN FORMAT_720
        ELSE IF q = "480p" THEN FORMAT_480
        ELSE IF q = "highest" THEN FORMAT_720
        ELSE FORMAT_360

\* variant of the chain: 'highest' gets a selector of its own
videoFormatSelector_HighestBest(quality) ==
    LET q == IF quality = "absent" THEN "highest" ELSE quality
    IN  IF q = "360p" \/ q = "240p" \/ q = "144p" THEN FORMAT_360
        ELSE IF q = "4k" THEN FORMAT_2160
        ELSE IF q = "1440p" THEN FORMAT_1440
        ELSE IF q = "1080p" THEN FORMAT_1080
        ELSE IF q = "720p" THEN FORMAT_720
        ELSE IF q = "480p" THEN FORMAT_480
        ELSE IF q = "highest" THEN <<"bestvideo+bestaudio/best">>
        ELSE FORMAT_720

videoFormatSelector(quality) ==
    LET q == IF quality = "absent" THEN "highest" ELSE quality
    IN  IF q = "360p" \/ q = "240p" \/ q = "144p" THEN FORMAT_360
        ELSE IF q = "4k" THEN FORMAT_2160
        ELSE IF q = "1440p" THEN FORMAT_1440
        ELSE IF q = "1080p" THEN FORMAT_1080
        ELSE IF q = "720p" THEN FORMAT_720
        ELSE IF q = "480p" THEN FORMAT_480
        ELSE IF q = "highest" THEN FORMAT_720
        ELSE FORMAT_720

PlaylistTier(height) ==
    <<"bestvideo[height<=", height, "][ext=mp4]+bestaudio[ext=m4a]/bestvideo[height<=",
      height, "]+bestaudio/best[height<=", height, "]">>

\* the chain of POST /api/download/playlist
playlistFormatSelector(quality) ==
    LET q == IF quality = "absent" THEN "best" ELSE quality
    IN  IF q = "4k" THEN PlaylistTier("2160")
        ELSE IF q = "1440p" THEN PlaylistTier("1440")
        ELSE IF q = "1080p" THEN PlaylistTier("1080")
        ELSE IF q = "720p" THEN PlaylistTier("720")
        ELSE IF q = "480p" THEN PlaylistTier("480")
        ELSE IF q = "360p" THEN PlaylistTier("360")
        ELSE IF q = "highest"
             THEN <<"bestvideo[ext=mp4]+bestaudio[ext=m4a]/bestvideo+bestaudio/best">>
        ELSE <<"best[ext=mp4]/best">>

-----------------------------------------------------------------------------
(* Cleanup specification: one pass applied to a drawn downloads directory *)

MaxSize == 2

Sizes == 1..MaxSize

SweepNames ==
    {TITLE_A \o EXT_MP4,
     TITLE_A \o FormatMarker("1", "3", "6") \o EXT_MP4,
     TITLE_A \o EXT_WEBM,
     TITLE_A \o FormatMarker("1", "4", "0") \o EXT_M4A,
     TITLE_A_PART \o EXT_MP4,
     <<"a", "_", "b">> \o EXT_MP4,
     <<"b">> \o EXT_MP4,
     <<"b">> \o EXT_WEBM}

RawTitles == {TITLE_A, TITLE_A_PART, TITLE_SPACED, TITLE_SYMBOL, <<"b">>}

Directories(names) ==
    UNION {[present -> Sizes] : present \in SUBSET names}

NoSweep ==
    [pass |-> "none", title |-> <<>>, before |-> <<>>, once |-> <<>>, runs |-> 0]

-----------------------------------------------------------------------------
(* Requests *)

INFO_TIMEOUT          == 30000
PLAYLIST_INFO_TIMEOUT == 30000
PLAYLIST_TITLE_TIMEOUT == 15000
VIDEO_TIMEOUT         == 600000
PLAYLIST_TIMEOUT      == 1800000
TEMP_PASS_1           == 3000
TEMP_PASS_2           == 5000
TEMP_PASS_3           == 8000
FINAL_PASS            == 10000
PLAYLIST_PASS         == 5000

Reqs == {"r1", "r2"}

downloadsDir == <<>>

\* path.join(__dirname, 'downloads'), the root of express.static: a
\* directory next to server.js, which no handler creates or writes to
staticRoot == <<"__dirname/downloads">>

\* GET /downloads/<name>: express.static sends the file of that name under
\* its root; without one the request falls through to express's 404
ServeStatic(files, name) ==
    IF staticRoot \in DOMAIN files /\ name \in DOMAIN files[staticRoot]
    THEN [status |-> 200, size |-> files[staticRoot][name]]
    ELSE [status |-> 404, size |-> 0]

\* path.join(downloadsDir, sanitizedTitle), as a path below downloadsDir
pathJoin(sanitizedTitle) ==
    IF sanitizedTitle = <<".">> THEN downloadsDir ELSE sanitizedTitle

IdleReq ==
    [pc |-> "idle", route |-> "", type |-> "", url |-> <<>>, quality |-> "",
     res |-> NoRes, title |-> <<>>, format |-> <<>>,
     child |-> "none", killed |-> FALSE, start |-> 0, outcome |-> "none",
     metaStart |-> 0, timers |-> {}, entries |-> 0,
     spawns |-> 0, seen |-> {}, calledAt |-> 0, data |-> {}, stored |-> {},
     fetchedAt |-> 0, respondedAt |-> 0, deleted |-> {},
     metaExit |-> "none", found |-> {}, passes |-> <<>>, locked |-> {},
     wrote |-> {}, stdout |-> <<>>, method |-> "POST", kills |-> 0,
     list |-> <<>>]

\* app.post routes and the dispatch of POST /api/download
\* variant of the dispatch: a type that is no known word goes to audio
Handler_AudioElse(route, type) ==
    IF route = "/api/info" THEN "info"
    ELSE IF route = "/api/formats" THEN "formats"
    ELSE IF route = "/api/download/video" THEN "postVideo"
    ELSE IF route = "/api/download/audio" THEN "postAudio"
    ELSE IF route = "/api/download/playlist" THEN "postPlaylist"
    ELSE IF type = "playlist" THEN "handlePlaylistDownload"
    ELSE IF type \in {"absent", "video"} THEN "handleVideoDownload"
    ELSE "handleAudioDownload"

Handler(route, type) ==
    IF route = "/api/info" THEN "info"
    ELSE IF route = "/api/formats" THEN "formats"
    ELSE IF route = "/api/download/video" THEN "postVideo"
    ELSE IF route = "/api/download/audio" THEN "postAudio"
    ELSE IF route = "/api/download/playlist" THEN "postPlaylist"
    ELSE IF type = "playlist" THEN "handlePlaylistDownload"
    ELSE IF type = "audio" THEN "handleAudioDownload"
    ELSE "handleVideoDownload"

HandlerOf(rq) ==
    IF rq.method = "GET" THEN "get" ELSE Handler(rq.route, rq.type)

VideoHandlers    == {"postVideo", "handleVideoDownload"}
AudioHandlers    == {"postAudio", "handleAudioDownload"}
PlaylistHandlers == {"postPlaylist", "handlePlaylistDownload"}

Respond(rq, response) == [rq EXCEPT !.res = response, !.respondedAt = now]

\* the catch block of a route: res.status(500).json({ error: error.message })
Fail(rq, message) ==
    [Respond(rq, ResError(500, message)) EXCEPT !.pc = "done"]

\* variant of the start: the command is executed a second time
StartDownload_Twice(rq, sanitizedTitle, format, timeout) ==
    [rq EXCEPT !.pc = "download", !.title = sanitizedTitle, !.format = format,
               !.child = "running", !.start = now, !.spawns = @ + 2,
               !.timers = IF timeout > 0
                          THEN @ \cup {[kind |-> "timeout", at |-> now + timeout]}
                          ELSE @]

\* exec(command, ...) of a download, and the timeout timer set after it
StartDownload(rq, sanitizedTitle, format, timeout) ==
    [rq EXCEPT !.pc = "download", !.title = sanitizedTitle, !.format = format,
               !.child = "running", !.start = now, !.spawns = @ + 1,
               !.timers = IF timeout > 0
                          THEN @ \cup {[kind |-> "timeout", at |-> now + timeout]}
                          ELSE @]

\* a route after `await getVideoInfo(url)` has returned data
AfterVideoInfo(rq, data) ==
    LET h == HandlerOf(rq)
        t == sanitizeFilename(data.title)
    IN  IF h = "info"
        THEN [Respond(rq, ResInfo(data)) EXCEPT !.pc = "done"]
        ELSE IF h \in VideoHandlers
        THEN StartDownload(rq, t, videoFormatSelector(rq.quality), VIDEO_TIMEOUT)
        ELSE StartDownload(rq, t, <<"bestaudio">>, 0)

\* variant of getVideoInfo: a call that misses while a fetch of the same url
\* is in flight waits for that fetch and starts no process of its own
CallGetVideoInfo_Coalesced(rq) ==
    LET seen == CachedInfo(rq.url)
        rq1  == [rq EXCEPT !.seen = seen, !.calledAt = now]
    IN  IF \E e \in seen : IsFresh(e, now)
        THEN LET e == CHOOSE e \in seen : TRUE
             IN  AfterVideoInfo([rq1 EXCEPT !.data = {e.data}], e.data)
        ELSE IF IsPlaylistUrl(rq.url)
        THEN Fail(rq1, VideoInfoError(ERR_PLAYLIST))
        ELSE IF \E r \in Reqs : req[r].pc = "info" /\ req[r].url = rq.url
        THEN [rq1 EXCEPT !.pc = "info", !.metaStart = now]
        ELSE [rq1 EXCEPT !.pc = "info", !.metaStart = now, !.spawns = @ + 1]

\* variant of getVideoInfo: the test of the url for the two markers is left out
CallGetVideoInfo_NoMarkerTest(rq) ==
    LET seen == CachedInfo(rq.url)
        rq1  == [rq EXCEPT !.seen = seen, !.calledAt = now]
    IN  IF \E e \in seen : IsFresh(e, now)
        THEN LET e == CHOOSE e \in seen : TRUE
             IN  AfterVideoInfo([rq1 EXCEPT !.data = {e.data}], e.data)
        ELSE [rq1 EXCEPT !.pc = "info", !.metaStart = now, !.spawns = @ + 1]

\* getVideoInfo up to its first await, and the route's continuation
CallGetVideoInfo(rq) ==
    LET seen == CachedInfo(rq.url)
        rq1  == [rq EXCEPT !.seen = seen, !.calledAt = now]
    IN  IF \E e \in seen : IsFresh(e, now)
        THEN LET e == CHOOSE e \in seen : TRUE
             IN  AfterVideoInfo([rq1 EXCEPT !.data = {e.data}], e.data)
        ELSE IF IsPlaylistUrl(rq.url)
        THEN Fail(rq1, VideoInfoError(ERR_PLAYLIST))
        ELSE [rq1 EXCEPT !.pc = "info", !.metaStart = now, !.spawns = @ + 1]

\* variant of the test of POST /api/info: only 'playlist' is looked for
UsesPlaylistInfo_OnlyPlaylist(rq) ==
    \/ HandlerOf(rq) \in PlaylistHandlers
    \/ HandlerOf(rq) = "info" /\ Includes(rq.url, P_PLAYLIST)

UsesPlaylistInfo(rq) ==
    \/ HandlerOf(rq) \in PlaylistHandlers
    \/ HandlerOf(rq) = "info" /\ IsPlaylistUrl(rq.url)

\* variant of the route entry: the test of the url is left out
Begin_NoUrlTest(rq) ==
    IF HandlerOf(rq) = "formats"
    THEN [rq EXCEPT !.pc = "formats", !.metaStart = now, !.spawns = @ + 1]
    ELSE IF UsesPlaylistInfo(rq)
    THEN [rq EXCEPT !.pc = "plinfo", !.metaStart = now, !.spawns = @ + 1]
    ELSE CallGetVideoInfo(rq)

\* a route from the request to its first await
Begin(rq) ==
    IF rq.url = NO_URL
    THEN [Respond(rq, ResError(400, MSG_URL_REQUIRED)) EXCEPT !.pc = "done"]
    ELSE IF HandlerOf(rq) = "formats"
    THEN [rq EXCEPT !.pc = "formats", !.metaStart = now, !.spawns = @ + 1]
    ELSE IF UsesPlaylistInfo(rq)
    THEN [rq EXCEPT !.pc = "plinfo", !.metaStart = now, !.spawns = @ + 1]
    ELSE CallGetVideoInfo(rq)

\* the GET routes: app.get('/'), app.get('/api/downloads-path'), the static
\* mount on '/downloads'; any other path ends in express's 404
GetResponse(files, route, name) ==
    IF route = "/"
    THEN ResInfo([message |-> "YouTube Downloader API Server is running!"])
    ELSE IF route = "/api/downloads-path"
    THEN ResInfo([downloadsPath |-> downloadsDir])
    ELSE IF route = "/downloads" /\ ServeStatic(files, name).status = 200
    THEN ResFile(name)
    ELSE ResError(404, <<"Cannot GET ", route>>)

Get(r, route, name) ==
    /\ req[r].pc = "idle"
    /\ req' = [req EXCEPT ![r] =
                  [Respond([IdleReq EXCEPT !.route = route, !.method = "GET",
                                           !.url = name],
                           GetResponse(fs, route, name))
                      EXCEPT !.pc = "done"]]
    /\ UNCHANGED <<now, videoInfoCache, fs, sw, fm>>

Arrive(r, route, type, url, quality) ==
    /\ req[r].pc = "idle"
    /\ req' = [req EXCEPT ![r] =
                  Begin([IdleReq EXCEPT !.route = route, !.type = type,
                                        !.url = url, !.quality = quality])]
    /\ UNCHANGED <<now, videoInfoCache, fs, sw, fm>>

\* variant of getVideoInfo: the first line is stored as soon as it has
\* parsed, before its title is looked at
VideoInfoDone_StoreFirst(r, result) ==
    LET rq  == [req[r] EXCEPT !.metaExit = result.exit, !.stdout = result.stdout]
        out == ParseVideoInfo(rq.url, result)
    IN  IF out.ok
        THEN LET data  == CHOOSE d \in out.data : TRUE
                 cache == CacheSet(videoInfoCache, rq.url, data, now)
             IN  /\ videoInfoCache' = cache
                 /\ req' = [req EXCEPT ![r] =
                       AfterVideoInfo([rq EXCEPT !.data = {data},
                                                 !.stored = {cache[rq.url]},
                                                 !.fetchedAt = now], data)]
        ELSE /\ videoInfoCache' =
                    IF out.message = ERR_NO_TITLE
                    THEN CacheSet(videoInfoCache, rq.url, [title |-> <<>>], now)
                    ELSE videoInfoCache
             /\ req' = [req EXCEPT ![r] = Fail(rq, VideoInfoError(out.message))]

\* getVideoInfo after its exec has ended with `result`
VideoInfoDone(r, result) ==
    LET rq  == [req[r] EXCEPT !.metaExit = result.exit, !.stdout = result.stdout]
        out == ParseVideoInfo(rq.url, result)
    IN  IF out.ok
        THEN LET data  == CHOOSE d \in out.data : TRUE
                 cache == CacheSet(videoInfoCache, rq.url, data, now)
             IN  /\ videoInfoCache' = cache
                 /\ req' = [req EXCEPT ![r] =
                       AfterVideoInfo([rq EXCEPT !.data = {data},
                                                 !.stored = {cache[rq.url]},
                                                 !.fetchedAt = now], data)]
        ELSE /\ videoInfoCache' = videoInfoCache
             /\ req' = [req EXCEPT ![r] = Fail(rq, VideoInfoError(out.message))]

InfoExit(r, result) ==
    /\ req[r].pc = "info"
    /\ VideoInfoDone(r, result)
    /\ UNCHANGED <<now, fs, sw, fm>>

\* POST /api/formats after `await execPromise(command)`: the answer carries
\* stdout as rawOutput; the catch block answers error.message
FormatsCommand(url) == <<"yt-dlp -F --no-warnings \"">> \o url \o <<"\"">>

FormatsExit(r, result) ==
    /\ req[r].pc = "formats"
    /\ LET rq == [req[r] EXCEPT !.metaExit = result.exit]
       IN  req' = [req EXCEPT ![r] =
               IF result.exit = "ok"
               THEN [Respond(rq, ResInfo([rawOutput |-> result.stdout]))
                        EXCEPT !.pc = "done"]
               ELSE Fail(rq, ExecError(result, FormatsCommand(rq.url)))]
    /\ UNCHANGED <<now, videoInfoCache, fs, sw, fm>>

-----------------------------------------------------------------------------
(* getPlaylistInfo *)

P_NO_ENTRIES ==
    <<"N", "o", " ", "p", "l", "a", "y", "l", "i", "s", "t", " ",
      "e", "n", "t", "r", "i", "e", "s">>
P_NO_VALID ==
    <<"N", "o", " ", "v", "a", "l", "i", "d", " ", "p", "l", "a", "y", "l",
      "i", "s", "t", " ", "e", "n", "t", "r", "i", "e", "s">>

DEFAULT_PLAYLIST_TITLE ==
    <<"Y", "o", "u", "T", "u", "b", "e", " ", "P", "l", "a", "y", "l", "i", "s", "t">>

\* the catch block of getPlaylistInfo
PlaylistInfoError(message) ==
    IF Includes(message, P_MAXBUFFER)
    THEN <<"Playlist too large. Try a smaller playlist or individual videos.">>
    ELSE IF Includes(message, P_NO_OUTPUT)
    THEN <<"yt-dlp failed to get playlist information. Please check if the URL is valid.">>
    ELSE IF Includes(message, P_NO_ENTRIES)
    THEN <<"No videos found in playlist. The playlist might be private or empty.">>
    ELSE IF Includes(message, P_NO_VALID)
    THEN <<"Could not parse playlist information. The playlist might be restricted or unavailable.">>
    ELSE <<"Failed to get playlist info: ">> \o message

PlaylistInfoCommand(url) ==
    <<"yt-dlp --dump-json --flat-playlist --no-warnings \"">> \o url \o <<"\"">>

PlaylistTitleCommand(url) ==
    <<"yt-dlp --get-filename -o \"%(playlist_title)s\" --no-warnings \"">>
        \o url \o <<"\"">>

\* variant of the parse: the first line that fails to parse ends the list
RECURSIVE ParsedEntries_UntilBadLine(_)
ParsedEntries_UntilBadLine(lines) ==
    IF lines = <<>> \/ ~Head(lines).json THEN <<>>
    ELSE <<Head(lines)>> \o ParsedEntries_UntilBadLine(Tail(lines))

\* the entries: the lines JSON.parse accepts, in their order
ParsedEntries(lines) == SelectSeq(lines, LAMBDA line : line.json)

\* getPlaylistInfo from the first exec's result to the second exec
PlaylistEntriesDone(rq0, result) ==
    LET rq == [rq0 EXCEPT !.metaExit = result.exit, !.stdout = result.stdout]
    IN
    IF result.exit # "ok"
    THEN Fail(rq, PlaylistInfoError(ExecError(result, PlaylistInfoCommand(rq.url))))
    ELSE IF result.stdout = <<>>
    THEN Fail(rq, PlaylistInfoError(P_NO_OUTPUT \o <<" for playlist">>))
    ELSE IF ParsedEntries(result.stdout) = <<>>
    THEN Fail(rq, PlaylistInfoError(P_NO_VALID \o <<" found">>))
    ELSE [rq EXCEPT !.pc = "pltitle", !.metaStart = now, !.spawns = @ + 1,
                    !.entries = Len(ParsedEntries(result.stdout)),
                    !.list = ParsedEntries(result.stdout)]

\* titleStdout.trim().split('\n')[0] || 'YouTube Playlist'
PlaylistTitle(titleStdout) ==
    IF titleStdout = <<>> \/ Head(titleStdout) = <<>>
    THEN DEFAULT_PLAYLIST_TITLE
    ELSE Head(titleStdout)

\* a route after `await getPlaylistInfo(url)` has returned
AfterPlaylistInfo(rq, title) ==
    LET h == HandlerOf(rq)
        t == sanitizeFilename(title)
    IN  IF h = "info"
        THEN [Respond(rq, ResInfo([title |-> title, entries |-> rq.entries]))
                 EXCEPT !.pc = "done"]
        ELSE IF h = "handlePlaylistDownload"
        THEN StartDownload(rq, t, videoFormatSelector(rq.quality), PLAYLIST_TIMEOUT)
        ELSE StartDownload(rq, t, playlistFormatSelector(rq.quality), 0)

\* fs.mkdirSync(playlistDir, { recursive: true }) when it does not exist
Mkdir(files, path) ==
    IF path \in DOMAIN files THEN files
    ELSE [p \in (DOMAIN files) \cup {path} |->
             IF p = path THEN <<>> ELSE files[p]]

\* getPlaylistInfo after its second exec has ended with `result`
PlaylistTitleDone(r, result) ==
    LET rq == [req[r] EXCEPT !.metaExit = result.exit]
    IN  IF result.exit # "ok"
        THEN /\ req' = [req EXCEPT ![r] =
                   Fail(rq, PlaylistInfoError(
                       ExecError(result, PlaylistTitleCommand(rq.url))))]
             /\ fs' = fs
        ELSE LET title == PlaylistTitle(result.stdout)
             IN  /\ req' = [req EXCEPT ![r] = AfterPlaylistInfo(rq, title)]
                 /\ fs' = IF HandlerOf(rq) = "info" THEN fs
                          ELSE Mkdir(fs, pathJoin(sanitizeFilename(title)))

PlaylistInfoExit(r, result) ==
    /\ req[r].pc = "plinfo"
    /\ req' = [req EXCEPT ![r] = PlaylistEntriesDone(req[r], result)]
    /\ UNCHANGED <<now, videoInfoCache, fs, sw, fm>>

PlaylistTitleExit(r, result) ==
    /\ req[r].pc = "pltitle"
    /\ PlaylistTitleDone(r, result)
    /\ UNCHANGED <<now, videoInfoCache, sw, fm>>

\* the timeout option of execPromise: the child is killed, the promise rejects
MetaTimeoutOf(rq) ==
    IF rq.pc = "info" THEN INFO_TIMEOUT
    ELSE IF rq.pc = "plinfo" THEN PLAYLIST_INFO_TIMEOUT
    ELSE PLAYLIST_TITLE_TIMEOUT

MetaPending(rq) == rq.pc \in {"info", "plinfo", "pltitle"}

MetaTimeout(r) ==
    /\ MetaPending(req[r])
    /\ now = req[r].metaStart + MetaTimeoutOf(req[r])
    /\ IF req[r].pc = "info"
       THEN VideoInfoDone(r, EXIT_KILLED) /\ fs' = fs
       ELSE IF req[r].pc = "plinfo"
       THEN /\ req' = [req EXCEPT ![r] = PlaylistEntriesDone(req[r], EXIT_KILLED)]
            /\ UNCHANGED <<videoInfoCache, fs>>
       ELSE PlaylistTitleDone(r, EXIT_KILLED) /\ videoInfoCache' = videoInfoCache
    /\ UNCHANGED <<now, sw, fm>>

-----------------------------------------------------------------------------
(* Downloads: the child process, its exec callback, the timers *)

DownloadCommand(rq) ==
    <<"yt-dlp -f \"">> \o rq.format \o <<"\" -o \"">> \o rq.title
        \o <<"\" --no-warnings \"">> \o rq.url \o <<"\"">>

\* the directory a download writes to and its handler reads
TargetDir(rq) ==
    IF HandlerOf(rq) \in PlaylistHandlers THEN pathJoin(rq.title) ELSE downloadsDir

F136 == FormatMarker("1", "3", "6")

\* the files a yt-dlp child can leave: of a video download the merged file
\* and a stream it merged from, of an audio download the .mp3, of a playlist
\* download one file per video, named from the video's title
PlaylistOutputNames == {<<"b">> \o EXT_MP4, TITLE_A_PART \o EXT_MP4}

OutputNames(rq) ==
    IF HandlerOf(rq) \in VideoHandlers
    THEN {rq.title \o EXT_MP4, rq.title \o F136 \o EXT_MP4}
    ELSE IF HandlerOf(rq) \in AudioHandlers
    THEN {rq.title \o EXT_MP3}
    ELSE PlaylistOutputNames

WriteFile(d, file, size) ==
    [f \in (DOMAIN d) \cup {file} |-> IF f = file THEN size ELSE d[f]]

ProcWrite(r, file, size) ==
    /\ req[r].child = "running"
    /\ file \in OutputNames(req[r])
    /\ file \notin Files(fs[TargetDir(req[r])])
    /\ fs' = [fs EXCEPT ![TargetDir(req[r])] = WriteFile(@, file, size)]
    /\ req' = [req EXCEPT ![r].wrote = @ \cup {file}]
    /\ UNCHANGED <<now, videoInfoCache, sw, fm>>

\* variant of the scheduling: the final pass is set to run first
CleanupTimers_FinalFirst(t) ==
    {[kind |-> "temp", at |-> t + TEMP_PASS_1],
     [kind |-> "temp", at |-> t + TEMP_PASS_2],
     [kind |-> "temp", at |-> t + TEMP_PASS_3],
     [kind |-> "final", at |-> t + 1000]}

CleanupTimers(t) ==
    {[kind |-> "temp", at |-> t + TEMP_PASS_1],
     [kind |-> "temp", at |-> t + TEMP_PASS_2],
     [kind |-> "temp", at |-> t + TEMP_PASS_3],
     [kind |-> "final", at |-> t + FINAL_PASS]}

\* what the callback finds: the files of the expected prefix and extension
FoundFiles(rq, d) ==
    IF HandlerOf(rq) \in VideoHandlers THEN finalMP4Files(d, rq.title)
    ELSE IF HandlerOf(rq) \in AudioHandlers
    THEN {file \in Files(d) : StartsWith(file, rq.title) /\ EndsWith(file, EXT_MP3)}
    ELSE {file \in Files(d) : EndsWith(file, EXT_MP4)}

\* variant of the error branch: the test of res.headersSent is left out
CallbackError_Unguarded(rq, result) ==
    LET h   == HandlerOf(rq)
        msg == ExecError(result, DownloadCommand(rq))
    IN  IF h \in VideoHandlers
        THEN Respond(rq, ResError(500, <<"Download failed: ">> \o msg))
        ELSE IF h \in AudioHandlers
        THEN Respond(rq, ResError(500, MSG_AUDIO_FAILED))
        ELSE IF h = "handlePlaylistDownload"
        THEN Respond(rq, ResError(500, <<"Playlist download failed: ">> \o msg))
        ELSE Respond(rq, ResError(500, MSG_PLAYLIST_FAILED))

\* the error branch of the four exec callbacks
CallbackError(rq, result) ==
    LET h   == HandlerOf(rq)
        msg == ExecError(result, DownloadCommand(rq))
    IN  IF headersSent(rq) THEN rq
        ELSE IF h \in VideoHandlers
        THEN Respond(rq, ResError(500, <<"Download failed: ">> \o msg))
        ELSE IF h \in AudioHandlers
        THEN Respond(rq, ResError(500, MSG_AUDIO_FAILED))
        ELSE IF h = "handlePlaylistDownload"
        THEN Respond(rq, ResError(500, <<"Playlist download failed: ">> \o msg))
        ELSE Respond(rq, ResError(500, MSG_PLAYLIST_FAILED))

\* the success branch: timers first, then the look into the directory.
\* files[0] is whichever match readdirSync lists first.
CallbackSuccess(rq, d, first) ==
    LET h     == HandlerOf(rq)
        files == FoundFiles(rq, d)
        rq1   == [rq EXCEPT !.found = files, !.timers =
                     IF h \in VideoHandlers THEN @ \cup CleanupTimers(now)
                     ELSE IF h = "handlePlaylistDownload"
                     THEN @ \cup {[kind |-> "plclean", at |-> now + PLAYLIST_PASS]}
                     ELSE @]
    IN  IF headersSent(rq1) THEN rq1
        ELSE IF h = "handlePlaylistDownload"
        THEN Respond(rq1, ResPlaylist(rq1.title,
                 {[totalVideos |-> rq1.entries,
                   downloadedVideos |-> Cardinality(files)]}))
        ELSE IF h = "postPlaylist"
        THEN Respond(rq1, ResPlaylist(rq1.title, {}))
        ELSE IF files # {}
        THEN Respond(rq1, ResFile(first))
        ELSE IF h \in VideoHandlers
        THEN Respond(rq1, ResError(500, MSG_NO_MP4))
        ELSE Respond(rq1, ResError(500, MSG_NO_AUDIO))

Callback(rq, result, d, first) ==
    LET rq1 == [rq EXCEPT !.pc = "done", !.child = "exited",
                          !.outcome = result.exit,
                          !.killed = @ \/ result.exit = "maxBuffer"]
    IN  IF result.exit # "ok" THEN CallbackError(rq1, result)
        ELSE CallbackSuccess(rq1, d, first)

FirstListed(files) == IF files = {} THEN {<<>>} ELSE files

\* the child ends by itself and exec calls back
ProcExit(r, result) ==
    /\ req[r].child = "running"
    /\ \E first \in FirstListed(FoundFiles(req[r], fs[TargetDir(req[r])])) :
          req' = [req EXCEPT ![r] =
                     Callback(req[r], result, fs[TargetDir(req[r])], first)]
    /\ UNCHANGED <<now, videoInfoCache, fs, sw, fm>>

\* the callback of a child that the timeout timer killed
KilledCallback(r) ==
    /\ req[r].child = "killed"
    /\ req' = [req EXCEPT ![r] =
                  Callback(req[r], EXIT_KILLED, fs[TargetDir(req[r])], <<>>)]
    /\ UNCHANGED <<now, videoInfoCache, fs, sw, fm>>

Due(rq, kind) == {timer \in rq.timers : timer.kind = kind /\ timer.at <= now}

\* variant of the timer: childProcess.killed is not looked at
OnTimeout_NoKilledTest(rq, message) ==
    LET rq1 == IF rq.child = "running"
               THEN [rq EXCEPT !.child = "killed", !.killed = TRUE,
                               !.kills = @ + 1]
               ELSE [rq EXCEPT !.kills = @ + 1]
    IN  IF headersSent(rq1) THEN rq1
        ELSE Respond(rq1, ResError(500, message))

\* setTimeout(() => { if (childProcess.killed === false) { kill(); ... } });
\* kills counts the calls of childProcess.kill(), which ends a running child
\* and does nothing to one that has exited
OnTimeout(rq, message) ==
    IF rq.killed THEN rq
    ELSE LET rq1 == IF rq.child = "running"
                    THEN [rq EXCEPT !.child = "killed", !.killed = TRUE,
                                    !.kills = @ + 1]
                    ELSE [rq EXCEPT !.kills = @ + 1]
         IN  IF headersSent(rq1) THEN rq1
             ELSE Respond(rq1, ResError(500, message))

TimeoutFire(r) ==
    /\ \E timer \in Due(req[r], "timeout") :
          req' = [req EXCEPT ![r] =
                     [OnTimeout(req[r],
                          IF HandlerOf(req[r]) \in VideoHandlers
                          THEN MSG_VIDEO_TIMEOUT ELSE MSG_PLAYLIST_TIMEOUT)
                      EXCEPT !.timers = @ \ {timer}]]
    /\ UNCHANGED <<now, videoInfoCache, fs, sw, fm>>

Deleted(before, after) == Files(before) \ Files(after)

\* one run of cleanupTempFiles from its timer; `locked` are the files for
\* which unlinkSync throws in this run
TempPass(r) ==
    /\ \E timer \in Due(req[r], "temp"), locked \in SUBSET Files(fs[downloadsDir]) :
          LET before == fs[downloadsDir]
              after  == cleanupTempFiles(before, req[r].title, locked)
          IN  /\ fs' = [fs EXCEPT ![downloadsDir] = after]
              /\ req' = [req EXCEPT ![r].timers = @ \ {timer},
                                    ![r].deleted = @ \cup Deleted(before, after),
                                    ![r].passes = Append(@, timer),
                                    ![r].locked = locked]
    /\ UNCHANGED <<now, videoInfoCache, sw, fm>>

\* the final cleanup timer
FinalPass(r) ==
    /\ \E timer \in Due(req[r], "final"), locked \in SUBSET Files(fs[downloadsDir]) :
          LET before == fs[downloadsDir]
          IN  \E after \in finalCleanup(before, req[r].title, locked) :
                  /\ fs' = [fs EXCEPT ![downloadsDir] = after]
                  /\ req' = [req EXCEPT ![r].timers = @ \ {timer},
                                ![r].deleted = @ \cup Deleted(before, after),
                                ![r].passes = Append(@, timer),
                                ![r].locked = locked]
    /\ UNCHANGED <<now, videoInfoCache, sw, fm>>

IsPlaylistTempFile(file) ==
    \/ Includes(file, EXT_TEMP)
    \/ Includes(file, EXT_PART)
    \/ Includes(file, EXT_WEBM) /\ ~EndsWith(file, EXT_MP4)
    \/ Includes(file, EXT_M4A) /\ ~EndsWith(file, EXT_MP4)

playlistCleanup(d, locked) ==
    UnlinkEach(d, {file \in Files(d) : IsPlaylistTempFile(file)}, locked)

\* the cleanup timer of handlePlaylistDownload
PlaylistPass(r) ==
    /\ \E timer \in Due(req[r], "plclean"),
          locked \in SUBSET Files(fs[TargetDir(req[r])]) :
          LET path   == TargetDir(req[r])
              before == fs[path]
              after  == playlistCleanup(before, locked)
          IN  /\ fs' = [fs EXCEPT ![path] = after]
              /\ req' = [req EXCEPT ![r].timers = @ \ {timer},
                                    ![r].deleted = @ \cup Deleted(before, after),
                                    ![r].passes = Append(@, timer),
                                    ![r].locked = locked]
    /\ UNCHANGED <<now, videoInfoCache, sw, fm>>

-----------------------------------------------------------------------------
(* Time.  A timer runs at its deadline: the clock does not pass a pending  *)
(* deadline.  The clock moves to the instants at which something changes:  *)
(* a deadline, the last fresh instant of a cache entry and its expiry, the *)
(* end of the timeout tier of a running download.                          *)

MaxTime == 2500000

TimeoutTier(rq) ==
    IF HandlerOf(rq) \in PlaylistHandlers THEN PLAYLIST_TIMEOUT ELSE VIDEO_TIMEOUT

Deadlines ==
    UNION {{timer.at : timer \in req[r].timers} : r \in DOMAIN req}
    \cup {req[r].metaStart + MetaTimeoutOf(req[r]) :
             r \in {x \in DOMAIN req : MetaPending(req[x])}}

Instants ==
    Deadlines
    \cup UNION {{videoInfoCache[u].timestamp + CACHE_DURATION - 1,
                 videoInfoCache[u].timestamp + CACHE_DURATION} :
                   u \in DOMAIN videoInfoCache}
    \cup UNION {{req[r].start + TimeoutTier(req[r]),
                 req[r].start + TimeoutTier(req[r]) + 1} :
                   r \in {x \in DOMAIN req : req[x].child = "running"}}

Advance(t) ==
    /\ t > now
    /\ t <= MaxTime
    /\ \A d \in Deadlines : t <= d
    /\ now' = t
    /\ UNCHANGED <<videoInfoCache, req, fs, sw, fm>>

-----------------------------------------------------------------------------
(* The server: requests on the download routes *)

VideoInfoResults ==
    {ExitOk(<<JsonLine(TITLE_A)>>), ExitOk(<<JsonLine(TITLE_A_PART)>>),
     ExitOk(<<JsonLine(TITLE_A), GARBAGE_LINE>>),
     ExitOk(<<JsonLine(TITLE_A), JsonLine(<<"b">>)>>),
     ExitOk(<<GARBAGE_LINE, JsonLine(TITLE_A)>>),
     ExitOk(<<>>), ExitOk(<<GARBAGE_LINE>>), ExitOk(<<JsonLine(<<>>)>>),
     EXIT_NONZERO, EXIT_MAXBUFFER}

PlaylistInfoResults ==
    {ExitOk(<<JsonLine(TITLE_A), GARBAGE_LINE>>), ExitOk(<<GARBAGE_LINE>>),
     ExitOk(<<JsonLine(TITLE_A), GARBAGE_LINE, JsonLine(<<"b">>)>>),
     ExitOk(<<>>), EXIT_NONZERO, EXIT_MAXBUFFER,
     [exit |-> "nonzero", stdout |-> <<JsonLine(TITLE_A)>>,
      stderr |-> STDERR_TEXT]}

\* the playlist titles: a plain one, one of symbols only, '.' and '..'
PlaylistTitleResults ==
    {ExitOk(<<<<"p">>>>), ExitOk(<<TITLE_SYMBOL>>), ExitOk(<<<<".">>>>),
     ExitOk(<<<<".", ".">>>>), EXIT_NONZERO}

DownloadResults == {ExitOk(<<>>), EXIT_NONZERO, EXIT_MAXBUFFER}

Request(route, type, url, quality) ==
    [route |-> route, type |-> type, url |-> url, quality |-> quality]

DownloadRequests ==
    {Request("/api/download/video", "absent", URL_VIDEO, "absent"),
     Request("/api/download/video", "absent", URL_LIST, "absent"),
     Request("/api/download", "absent", URL_VIDEO, "absent"),
     Request("/api/download", "audio", URL_VIDEO, "absent"),
     Request("/api/download", "Audio", URL_VIDEO, "absent"),
     Request("/api/download", "audio", URL_PLAYLIST, "absent"),
     Request("/api/download", "playlist", URL_PLAYLIST, "absent"),
     Request("/api/download/audio", "absent", URL_VIDEO, "absent"),
     Request("/api/download/playlist", "absent", URL_PLAYLIST, "absent")}

\* bodies without url on every POST route
PostRoutes ==
    {"/api/info", "/api/download", "/api/download/video", "/api/download/audio",
     "/api/download/playlist", "/api/formats"}

MissingUrlRequests ==
    {Request(route, type, NO_URL, "absent") :
        route \in PostRoutes, type \in {"absent", "audio", "playlist"}}

FormatsRequests == {Request("/api/formats", "absent", URL_VIDEO, "absent")}

InfoRequests ==
    {Request("/api/info", "absent", url, "absent") :
        url \in {URL_VIDEO, URL_LIST, URL_PLAYLIST}}

NoFormat ==
    [prev |-> [handler |-> "", quality |-> "", format |-> <<>>],
     cur  |-> [handler |-> "", quality |-> "", format |-> <<>>]]

EmptyDir == <<>>

\* what earlier requests can have left: an entry stored by POST /api/info,
\* the .mp3 of an audio download
PriorCaches ==
    {<<>>,
     [u \in {URL_VIDEO} |-> [data |-> [title |-> TITLE_A], timestamp |-> 0]]}

PriorDirectories == {EmptyDir, [f \in {TITLE_A \o EXT_MP3} |-> 1]}

Init ==
    /\ now = 0
    /\ videoInfoCache \in PriorCaches
    /\ req = [r \in Reqs |-> IdleReq]
    /\ fs \in {[p \in {downloadsDir} |-> d] : d \in PriorDirectories}
    /\ sw = NoSweep
    /\ fm = NoFormat

\* one request on a POST route or a GET path, from its arrival to its last
\* timer
Next ==
    \/ \E i \in DownloadRequests \cup MissingUrlRequests \cup FormatsRequests
                  \cup InfoRequests :
          Arrive("r1", i.route, i.type, i.url, i.quality)
    \/ \E route \in {"/", "/api/downloads-path", "/health", "/downloads"} :
          Get("r1", route, TITLE_A \o EXT_MP4)
    \/ \E r \in Reqs, result \in DownloadResults : FormatsExit(r, result)
    \/ \E r \in Reqs, result \in VideoInfoResults : InfoExit(r, result)
    \/ \E r \in Reqs, result \in PlaylistInfoResults : PlaylistInfoExit(r, result)
    \/ \E r \in Reqs, result \in PlaylistTitleResults : PlaylistTitleExit(r, result)
    \/ \E r \in Reqs : MetaTimeout(r)
    \/ \E r \in Reqs : \E file \in OutputNames(req[r]), size \in Sizes :
          ProcWrite(r, file, size)
    \/ \E r \in Reqs, result \in DownloadResults : ProcExit(r, result)
    \/ \E r \in Reqs : KilledCallback(r)
    \/ \E r \in Reqs : TimeoutFire(r)
    \/ \E r \in Reqs : TempPass(r)
    \/ \E r \in Reqs : FinalPass(r)
    \/ \E r \in Reqs : PlaylistPass(r)
    \/ \E t \in Instants : Advance(t)

Spec == Init /\ [][Next]_vars

\* What node's event loop guarantees: the clock goes on, a timer whose delay
\* has passed runs, the callback of a killed child is called.  That a yt-dlp
\* child ends by itself is not guaranteed.
Fairness ==
    /\ WF_vars(\E t \in Instants : Advance(t))
    /\ \A r \in Reqs :
          /\ WF_vars(MetaTimeout(r))
          /\ WF_vars(TimeoutFire(r))
          /\ WF_vars(KilledCallback(r))
          /\ WF_vars(TempPass(r))
          /\ WF_vars(FinalPass(r))
          /\ WF_vars(PlaylistPass(r))

SpecLive == Spec /\ Fairness

-----------------------------------------------------------------------------
(* Cache specification: concurrent calls of getVideoInfo, from POST        *)
(* /api/info and from the download routes with a URL getVideoInfo rejects  *)

URL_OTHER == <<"v", "=", "2">>

CacheRequests ==
    {Request("/api/info", "absent", URL_VIDEO, "absent"),
     Request("/api/info", "absent", URL_OTHER, "absent"),
     Request("/api/info", "absent", <<"v", "=", "J", "S", "O", "N">>, "absent"),
     Request("/api/download/video", "absent", URL_LIST, "absent"),
     Request("/api/download/video", "absent", URL_PLAYLIST, "absent"),
     Request("/api/download", "absent", URL_LIST, "absent"),
     Request("/api/download", "audio", URL_PLAYLIST, "absent"),
     Request("/api/download/audio", "absent", URL_LIST, "absent")}

InitCache ==
    /\ now = 0
    /\ videoInfoCache = <<>>
    /\ req = [r \in Reqs |-> IdleReq]
    /\ fs = [p \in {downloadsDir} |-> EmptyDir]
    /\ sw = NoSweep
    /\ fm = NoFormat

NextCache ==
    \/ \E r \in Reqs, i \in CacheRequests :
          Arrive(r, i.route, i.type, i.url, i.quality)
    \/ \E r \in Reqs, result \in VideoInfoResults : InfoExit(r, result)
    \/ \E r \in Reqs : MetaTimeout(r)
    \/ \E t \in Instants : Advance(t)

SpecCache == InitCache /\ [][NextCache]_vars

-----------------------------------------------------------------------------
(* Pair specification: two requests of handleVideoDownload for one URL    *)
(* that arrive at the same instant.  The child of r1 ends by itself; the   *)
(* child of r2 runs on until its timeout timer kills it.                   *)

NextPair ==
    \/ \E r \in Reqs :
          now = 0 /\ Arrive(r, "/api/download", "absent", URL_VIDEO, "absent")
    \/ \E r \in Reqs : InfoExit(r, ExitOk(<<JsonLine(TITLE_A)>>))
    \/ \E r \in Reqs : \E file \in OutputNames(req[r]), size \in Sizes :
          ProcWrite(r, file, size)
    \/ ProcExit("r1", ExitOk(<<>>))
    \/ \E r \in Reqs : KilledCallback(r)
    \/ \E r \in Reqs : TimeoutFire(r)
    \/ \E r \in Reqs : TempPass(r)
    \/ \E r \in Reqs : FinalPass(r)
    \/ \E t \in Instants : Advance(t)

SpecPair == InitCache /\ [][NextPair]_vars

-----------------------------------------------------------------------------
(* Cleanup specification *)

InitSweep ==
    /\ now = 0
    /\ videoInfoCache = <<>>
    /\ req = [r \in Reqs |-> IdleReq]
    /\ fs \in {[p \in {downloadsDir} |-> d] : d \in Directories(SweepNames)}
    /\ sw = NoSweep
    /\ fm = NoFormat

SweepTemp(rawTitle) ==
    /\ sw.pass = "none"
    /\ LET t      == sanitizeFilename(rawTitle)
           before == fs[downloadsDir]
           after  == cleanupTempFiles(before, t, {})
       IN  /\ fs' = [fs EXCEPT ![downloadsDir] = after]
           /\ sw' = [pass |-> "temp", title |-> t, before |-> before,
                     once |-> after, runs |-> 1]
    /\ UNCHANGED <<now, videoInfoCache, req, fm>>

SweepFinal(rawTitle) ==
    /\ sw.pass = "none"
    /\ LET t      == sanitizeFilename(rawTitle)
           before == fs[downloadsDir]
       IN  \E after \in finalCleanup(before, t, {}) :
               /\ fs' = [fs EXCEPT ![downloadsDir] = after]
               /\ sw' = [pass |-> "final", title |-> t, before |-> before,
                         once |-> after, runs |-> 1]
    /\ UNCHANGED <<now, videoInfoCache, req, fm>>

\* the same pass run once more on what the first run has left
SweepAgain ==
    /\ sw.runs = 1
    /\ \E after \in (IF sw.pass = "temp"
                      THEN {cleanupTempFiles(fs[downloadsDir], sw.title, {})}
                      ELSE finalCleanup(fs[downloadsDir], sw.title, {})) :
          fs' = [fs EXCEPT ![downloadsDir] = after]
    /\ sw' = [sw EXCEPT !.runs = 2]
    /\ UNCHANGED <<now, videoInfoCache, req, fm>>

NextSweep ==
    \/ \E rawTitle \in RawTitles : SweepTemp(rawTitle)
    \/ \E rawTitle \in RawTitles : SweepFinal(rawTitle)
    \/ SweepAgain

SpecSweep == InitSweep /\ [][NextSweep]_vars

-----------------------------------------------------------------------------
(* Format specification: the selection applied to drawn selectors *)

Qualities ==
    {"absent", "144p", "240p", "360p", "480p", "720p", "1080p", "1440p",
     "4k", "highest", "best", "2160p", "8k", ""}

FormatHandlers ==
    {"postVideo", "handleVideoDownload", "handlePlaylistDownload", "postPlaylist"}

\* the format selector a handler passes to yt-dlp -f
FormatOf(handler, quality) ==
    IF handler = "postPlaylist" THEN playlistFormatSelector(quality)
    ELSE videoFormatSelector(quality)

SelectFormat(handler, quality) ==
    /\ fm' = [prev |-> fm.cur,
              cur  |-> [handler |-> handler, quality |-> quality,
                        format |-> FormatOf(handler, quality)]]
    /\ UNCHANGED <<now, videoInfoCache, req, fs, sw>>

NextFormat ==
    \E handler \in FormatHandlers, quality \in Qualities :
        SelectFormat(handler, quality)

SpecFormat == InitCache /\ [][NextFormat]_vars

-----------------------------------------------------------------------------
(* C1: a call of getVideoInfo that finds an entry for its URL stored less  *)
(* than CACHE_DURATION before the call returns that entry's payload and    *)
(* starts no process; the call that stored the entry and the call that     *)
(* found it have started one fetch between them.  Checked on SpecCache.    *)

C1_Hit(rq) ==
    /\ rq.pc # "idle"
    /\ \E e \in rq.seen : rq.calledAt - e.timestamp < CACHE_DURATION

C1_FreshEntryServedWithoutFetch ==
    /\ \A r \in Reqs :
          C1_Hit(req[r]) =>
              /\ req[r].spawns = 0
              /\ req[r].metaExit = "none"
              /\ \E e \in req[r].seen :
                    /\ req[r].data = {e.data}
                    /\ HandlerOf(req[r]) = "info" => req[r].res = ResInfo(e.data)
    /\ \A a, b \in Reqs :
          (a # b /\ req[a].stored # {} /\ req[b].seen = req[a].stored
                 /\ C1_Hit(req[b])) =>
              /\ req[a].spawns + req[b].spawns = 1
              /\ req[b].data = req[a].data

\* the second call comes at the last instant at which the entry is fresh
C1_Witness ==
    \E a, b \in Reqs :
        /\ a # b
        /\ req[a].stored # {}
        /\ req[b].seen = req[a].stored
        /\ req[b].calledAt = req[a].fetchedAt + CACHE_DURATION - 1
        /\ req[b].res = ResInfo([title |-> TITLE_A])
        /\ req[b].spawns = 0

-----------------------------------------------------------------------------
(* C2: a call of getVideoInfo that finds an entry whose age is             *)
(* CACHE_DURATION or more (the age CACHE_DURATION itself included) starts  *)
(* exactly one fetch, and when the fetch succeeds the entry of the URL is  *)
(* replaced by the new payload with the time of the store as timestamp.    *)
(* Checked on SpecCache.                                                   *)

C2_Expired(rq) ==
    /\ rq.pc # "idle"
    /\ \E e \in rq.seen : rq.calledAt - e.timestamp >= CACHE_DURATION

C2_ExpiredEntryRefetched ==
    \A r \in Reqs :
        C2_Expired(req[r]) =>
            /\ req[r].spawns = 1
            /\ req[r].pc = "info" \/ req[r].metaExit # "none"
            /\ req[r].data # {} =>
                  /\ \E d \in req[r].data :
                        req[r].stored =
                            {[data |-> d, timestamp |-> req[r].fetchedAt]}
                  /\ req[r].fetchedAt >= req[r].calledAt
                  /\ req[r].url \in DOMAIN videoInfoCache
                  /\ videoInfoCache[req[r].url] \notin req[r].seen
                  /\ videoInfoCache[req[r].url].timestamp >= req[r].fetchedAt

\* the call comes exactly CACHE_DURATION after the store, and its fetch
\* succeeds with another payload
C2_Witness ==
    \E r \in Reqs :
        /\ \E e \in req[r].seen :
              /\ req[r].calledAt - e.timestamp = CACHE_DURATION
              /\ e.data = [title |-> TITLE_A]
        /\ req[r].stored =
              {[data |-> [title |-> TITLE_A_PART], timestamp |-> req[r].fetchedAt]}
        /\ videoInfoCache[req[r].url] \in req[r].stored
        /\ req[r].res = ResInfo([title |-> TITLE_A_PART])

-----------------------------------------------------------------------------
(* C3: no process of an invocation is still running once the timeout of    *)
(* its tier has elapsed (metadata lookups: the timeout of the exec call;   *)
(* single video and audio downloads: 10 minutes; playlist downloads on     *)
(* both routes: 30 minutes), and a request whose child was killed on       *)
(* timeout has an error response.  Stated on Spec; it does not hold.       *)

C3_NoInvocationOutlivesItsTimeout ==
    \A r \in Reqs :
        /\ req[r].child = "running" =>
              now - req[r].start <= TimeoutTier(req[r])
        /\ MetaPending(req[r]) =>
              now - req[r].metaStart <= MetaTimeoutOf(req[r])
        /\ req[r].outcome = "killed" => req[r].res.kind = "error"

-----------------------------------------------------------------------------
(* C4: when the files starting with the sanitized title are at least one   *)
(* .mp4 plus any number of other files, one final pass leaves exactly one  *)
(* file starting with the title, and it is an .mp4 of the largest size     *)
(* among the .mp4 candidates.  Checked on SpecSweep.                       *)

PrefixFiles(d, t) == {file \in Files(d) : StartsWith(file, t)}

C4_Candidates == {file \in PrefixFiles(sw.before, sw.title) : EndsWith(file, EXT_MP4)}

C4_FinalPassLeavesLargestMp4 ==
    (sw.pass = "final" /\ C4_Candidates # {}) =>
        \E keep \in C4_Candidates :
            /\ \A g \in C4_Candidates : sw.before[g] <= sw.before[keep]
            /\ PrefixFiles(fs[downloadsDir], sw.title) = {keep}
            /\ fs[downloadsDir][keep] = sw.before[keep]

\* title.webm, title.f140.m4a and two .mp4 candidates of different sizes
\* become the larger .mp4
C4_Witness ==
    /\ sw.pass = "final"
    /\ sw.title = TITLE_A
    /\ PrefixFiles(sw.before, TITLE_A) =
          {TITLE_A \o EXT_WEBM,
           TITLE_A \o FormatMarker("1", "4", "0") \o EXT_M4A,
           TITLE_A \o FormatMarker("1", "3", "6") \o EXT_MP4,
           TITLE_A \o EXT_MP4}
    /\ sw.before[TITLE_A \o FormatMarker("1", "3", "6") \o EXT_MP4] = 1
    /\ sw.before[TITLE_A \o EXT_MP4] = 2
    /\ PrefixFiles(fs[downloadsDir], TITLE_A) = {TITLE_A \o EXT_MP4}

-----------------------------------------------------------------------------
(* C5: no cleanup pass of a download deletes the download's accepted       *)
(* output: of a single-video download the file <sanitized title>.mp4, of a *)
(* playlist download the .mp4 files named from the titles of its videos.   *)
(* Stated on Spec; it does not hold.                                       *)

C5_AcceptedOutput(rq) ==
    IF HandlerOf(rq) \in VideoHandlers THEN {rq.title \o EXT_MP4}
    ELSE IF HandlerOf(rq) \in PlaylistHandlers THEN PlaylistOutputNames
    ELSE {}

C5_CleanupKeepsAcceptedOutput ==
    \A r \in Reqs : req[r].deleted \cap C5_AcceptedOutput(req[r]) = {}

-----------------------------------------------------------------------------
(* C6: once a single-video download has answered with a file and all its   *)
(* cleanup passes have run, the file named in the answer is the one .mp4   *)
(* starting with the title that is left in the downloads directory.        *)
(* Stated on Spec; it does not hold.                                       *)

C6_PassesPending(rq) == {timer \in rq.timers : timer.kind \in {"temp", "final"}}

C6_ReportedFileIsFinalArtifact ==
    \A r \in Reqs :
        (/\ HandlerOf(req[r]) \in VideoHandlers
         /\ req[r].outcome = "ok"
         /\ req[r].res.kind = "file"
         /\ C6_PassesPending(req[r]) = {}) =>
            {file \in PrefixFiles(fs[downloadsDir], req[r].title) :
                EndsWith(file, EXT_MP4)} = {req[r].res.filename}

-----------------------------------------------------------------------------
(* C7: on every download path, a child that exits with status 0 while the  *)
(* target directory holds no file of the expected prefix and extension     *)
(* ends the request with an error response, never with a success.          *)
(* Stated on Spec; it does not hold.                                       *)

C7_NoArtifactIsAnError ==
    \A r \in Reqs :
        (req[r].outcome = "ok" /\ req[r].found = {}) =>
            req[r].res.kind = "error"

-----------------------------------------------------------------------------
(* C8: an invocation that ends because its output exceeds maxBuffer gives  *)
(* the caller an error response that differs from the response the same    *)
(* request gets when the process fails with a nonzero exit status.         *)
(* Stated on Spec; it does not hold.                                       *)

C8_GenericDownloadFailure(rq) ==
    CallbackError([rq EXCEPT !.res = NoRes], EXIT_NONZERO).res

C8_GenericInfoFailures(rq) ==
    {VideoInfoError(ExecError(EXIT_NONZERO, VideoInfoCommand(rq.url))),
     PlaylistInfoError(ExecError(EXIT_NONZERO, PlaylistInfoCommand(rq.url)))}

C8_OutputTooLargeIsDistinct ==
    \A r \in Reqs :
        /\ req[r].outcome = "maxBuffer" =>
              /\ req[r].res.kind = "error"
              /\ req[r].res # C8_GenericDownloadFailure(req[r])
        /\ req[r].metaExit = "maxBuffer" =>
              /\ req[r].res.kind = "error"
              /\ req[r].res.error \notin C8_GenericInfoFailures(req[r])

-----------------------------------------------------------------------------
(* C9: a single-video or audio download whose URL contains 'playlist' or   *)
(* 'list=' ends in getVideoInfo with the message that directs to the       *)
(* playlist download type, and no process is started, whatever the cache   *)
(* holds.  Checked on SpecCache.                                           *)

C9_Case(rq) ==
    /\ rq.pc # "idle"
    /\ HandlerOf(rq) \in VideoHandlers \cup AudioHandlers
    /\ Includes(rq.url, P_PLAYLIST) \/ Includes(rq.url, P_LIST)

C9_PlaylistUrlRejectedWithoutProcess ==
    \A r \in Reqs :
        C9_Case(req[r]) =>
            /\ req[r].pc = "done"
            /\ req[r].res = ResError(500, MSG_SELECT_PLAYLIST)
            /\ req[r].spawns = 0
            /\ req[r].metaExit = "none"
            /\ req[r].child = "none"

\* a 'list=' URL on an audio download while the cache holds an entry
C9_Witness ==
    \E r \in Reqs :
        /\ C9_Case(req[r])
        /\ req[r].url = URL_LIST
        /\ HandlerOf(req[r]) = "postAudio"
        /\ URL_VIDEO \in DOMAIN videoInfoCache
        /\ req[r].res.error = MSG_SELECT_PLAYLIST

-----------------------------------------------------------------------------
(* C10: a quality outside the values a handler's chain tests for gives the *)
(* handler's default format (the 720p format of the video chain, 'best' of *)
(* POST /api/download/playlist), and two selections with the same handler  *)
(* and quality give the same format.  Checked on SpecFormat.               *)

C10_Recognized(handler) ==
    IF handler = "postPlaylist"
    THEN {"4k", "1440p", "1080p", "720p", "480p", "360p", "highest"}
    ELSE {"144p", "240p", "360p", "480p", "720p", "1080p", "1440p", "4k",
          "highest"}

C10_Default(handler) ==
    IF handler = "postPlaylist" THEN <<"best[ext=mp4]/best">>
    ELSE <<"136+140/247+140/398+140/bestvideo[height<=720]+bestaudio">>

C10_UnrecognizedQualityGivesDefault ==
    /\ (fm.cur.handler # "" /\ fm.cur.quality \notin C10_Recognized(fm.cur.handler)
                            /\ fm.cur.quality # "absent") =>
          fm.cur.format = C10_Default(fm.cur.handler)
    /\ (fm.cur.handler # "" /\ fm.prev.handler = fm.cur.handler
                            /\ fm.prev.quality = fm.cur.quality) =>
          fm.prev.format = fm.cur.format

\* the same unrecognized quality selected twice by one handler
C10_Witness ==
    /\ fm.cur.handler = "handleVideoDownload"
    /\ fm.cur.quality = "8k"
    /\ fm.prev = fm.cur
    /\ fm.cur.format = C10_Default("handleVideoDownload")

-----------------------------------------------------------------------------
(* C11: on every POST route a request without url is answered 400 'URL is  *)
(* required' in the step in which it arrives; that step starts no process  *)
(* and leaves the cache and the directories as they are, and the request   *)
(* keeps that answer.  Checked on Spec.                                    *)

C11_Answered(rq) ==
    /\ rq.pc = "done"
    /\ rq.res = ResError(400, MSG_URL_REQUIRED)
    /\ rq.spawns = 0
    /\ rq.child = "none"
    /\ rq.metaExit = "none"
    /\ rq.timers = {}

C11_MissingUrlRejected ==
    /\ [](\A r \in Reqs :
             (req[r].pc # "idle" /\ req[r].url = <<>>) => C11_Answered(req[r]))
    /\ [][\A r \in Reqs :
             (req[r].pc = "idle" /\ req'[r].pc # "idle" /\ req'[r].url = <<>>) =>
                 /\ C11_Answered(req'[r])
                 /\ videoInfoCache' = videoInfoCache
                 /\ fs' = fs]_vars

\* the request without url on POST /api/formats, with an entry in the cache
\* and a file in the directory
C11_Witness ==
    \E r \in Reqs :
        /\ req[r].route = "/api/formats"
        /\ req[r].url = <<>>
        /\ req[r].res.status = 400
        /\ videoInfoCache # <<>>
        /\ Files(fs[downloadsDir]) # {}

-----------------------------------------------------------------------------
(* C12: with getVideoInfo calls running concurrently, the cache holds one  *)
(* entry under each URL it holds, and the step in which a fetch completes  *)
(* puts its entry in the place of the entry of its URL: the URLs of the    *)
(* cache grow by at most that URL and the other entries stay.  Checked on  *)
(* SpecCache.                                                              *)

C12_Stores(r) ==
    /\ req[r].pc = "info"
    /\ req'[r].stored # {}

C12_OneEntryPerUrl ==
    /\ [](\A url \in DOMAIN videoInfoCache : Cardinality(CachedInfo(url)) = 1)
    /\ [][\A r \in Reqs :
             C12_Stores(r) =>
                 /\ DOMAIN videoInfoCache' = DOMAIN videoInfoCache \cup {req[r].url}
                 /\ videoInfoCache'[req[r].url] =
                       [data |-> CHOOSE d \in req'[r].data : TRUE, timestamp |-> now]
                 /\ \A k \in DOMAIN videoInfoCache :
                       k # req[r].url => videoInfoCache'[k] = videoInfoCache[k]]_vars

\* two calls for one URL that both missed: the second to complete has put
\* its entry in the place of the first's
C12_Witness ==
    \E a, b \in Reqs :
        /\ req[a].url = req[b].url
        /\ req[a].stored # {} /\ req[b].stored # {}
        /\ req[a].calledAt = req[b].calledAt
        /\ req[a].fetchedAt < req[b].fetchedAt
        /\ req[a].data # req[b].data
        /\ DOMAIN videoInfoCache = {req[a].url}
        /\ videoInfoCache[req[a].url] \in req[b].stored

-----------------------------------------------------------------------------
(* C13: every request that has arrived is eventually answered, whether or  *)
(* not its yt-dlp child ends by itself.  Stated on SpecLive; it does not   *)
(* hold.                                                                   *)

C13_EveryRequestAnswered ==
    \A r \in Reqs :
        (req[r].pc # "idle" /\ HandlerOf(req[r]) # "formats")
            ~> (req[r].res.kind # "none")

-----------------------------------------------------------------------------
(* C14: after the child of a single-video download has ended, whether with *)
(* status 0, with a nonzero status or killed on timeout, a cleanup pass of *)
(* the request eventually runs.  Stated on SpecLive; it does not hold.     *)

C14_CleanupFollowsEveryEnd ==
    \A r \in Reqs :
        (HandlerOf(req[r]) \in VideoHandlers /\ req[r].child = "exited")
            ~> (req[r].passes # <<>>)

-----------------------------------------------------------------------------
(* C15: once the child of a single-video download has exited with status 0 *)
(* the request is answered in the callback, and the passes that have run   *)
(* since are, in this order, the temporary-file passes 3 s, 5 s and 8 s    *)
(* after the answer and the final pass 10 s after it; the passes not yet   *)
(* run are still pending.  Checked on Spec.                                *)

C15_Expected(at) ==
    <<[kind |-> "temp", at |-> at + TEMP_PASS_1],
      [kind |-> "temp", at |-> at + TEMP_PASS_2],
      [kind |-> "temp", at |-> at + TEMP_PASS_3],
      [kind |-> "final", at |-> at + FINAL_PASS]>>

C15_PassesInOrderAfterAnswer ==
    \A r \in Reqs :
        (HandlerOf(req[r]) \in VideoHandlers /\ req[r].outcome = "ok") =>
            LET expected == C15_Expected(req[r].respondedAt)
                n        == Len(req[r].passes)
            IN  /\ req[r].res.kind \in {"file", "error"}
                /\ n <= 4
                /\ \A i \in 1..n : req[r].passes[i] = expected[i]
                /\ {timer \in req[r].timers : timer.kind # "timeout"} =
                      {expected[i] : i \in (n + 1)..4}
                /\ n > 0 => now >= req[r].passes[n].at

\* all four passes have run after a success answer
C15_Witness ==
    \E r \in Reqs :
        /\ HandlerOf(req[r]) = "postVideo"
        /\ req[r].outcome = "ok"
        /\ req[r].res.kind = "file"
        /\ Len(req[r].passes) = 4
        /\ req[r].passes[4].kind = "final"
        /\ req[r].deleted # {}

-----------------------------------------------------------------------------
(* C16: in a cleanup pass in which unlinkSync throws for some files, every *)
(* other file the pass is after is removed all the same, the files it      *)
(* throws for stay, and the step changes neither the answer of the request *)
(* nor another directory.  Checked on Spec.                                *)

C16_Unfailing(before, rq, kind) ==
    IF kind = "temp" THEN {cleanupTempFiles(before, rq.title, {})}
    ELSE IF kind = "final" THEN finalCleanup(before, rq.title, {})
    ELSE {playlistCleanup(before, {})}

C16_FailedUnlinkIsSkipped ==
    [][\A r \in Reqs :
          (req'[r].passes # req[r].passes) =>
              LET path   == TargetDir(req[r])
                  kind   == req'[r].passes[Len(req'[r].passes)].kind
                  locked == req'[r].locked
              IN  /\ \E d \in C16_Unfailing(fs[path], req[r], kind) :
                        Files(fs'[path]) = Files(d) \cup (locked \cap Files(fs[path]))
                  /\ \A p \in DOMAIN fs : p # path => fs'[p] = fs[p]
                  /\ DOMAIN fs' = DOMAIN fs
                  /\ req'[r].res = req[r].res
                  /\ req'[r].pc = req[r].pc]_vars

\* the first pass of a request: unlinkSync has thrown for one temporary file,
\* which is still there, and another file has been removed
C16_Witness ==
    \E r \in Reqs :
        /\ Len(req[r].passes) = 1
        /\ req[r].deleted # {}
        /\ req[r].res.kind = "file"
        /\ \E file \in req[r].locked \cap Files(fs[downloadsDir]) :
              IsTempFile(file, req[r].title)

-----------------------------------------------------------------------------
(* C17: a temporary-file pass or a final pass run a second time on what    *)
(* its first run has left changes nothing, and a pass on a directory in    *)
(* which no file name includes the title changes nothing (every unlinkSync *)
(* succeeding).  Checked on SpecSweep.                                     *)

C17_NothingMatches ==
    \A file \in Files(sw.before) : ~Includes(file, sw.title)

C17_PassesAreIdempotent ==
    /\ sw.runs = 2 => fs[downloadsDir] = sw.once
    /\ (sw.runs >= 1 /\ C17_NothingMatches) => fs[downloadsDir] = sw.before

\* a final pass that has removed files, run twice
C17_Witness ==
    /\ sw.runs = 2
    /\ sw.pass = "final"
    /\ Cardinality(Files(sw.before) \ Files(sw.once)) >= 2
    /\ fs[downloadsDir] = sw.once

-----------------------------------------------------------------------------
(* C18: every file that a cleanup pass of a single-video download removes  *)
(* has a name that starts with the sanitized title; the other files of the *)
(* directory stay.  Stated on SpecSweep; it does not hold.                 *)

C18_OnlyPrefixFilesDeleted ==
    sw.runs >= 1 =>
        \A file \in Files(sw.before) \ Files(fs[downloadsDir]) :
            StartsWith(file, sw.title)

------------------------------------------------------------------------------
(* C19: when a download process (video, audio or playlist handler) ends    *)
(* with a nonzero exit status, the error the caller receives carries the   *)
(* stderr text the process wrote.  Stated on Spec; it does not hold.       *)

C19_NonzeroExitCarriesStderr ==
    \A r \in Reqs :
        req[r].outcome = "nonzero" =>
            /\ req[r].res.kind = "error"
            /\ Includes(req[r].res.error, STDERR_TEXT)

------------------------------------------------------------------------------
(* C20: getVideoInfo calls for one URL that each find no fresh entry are   *)
(* not merged: every such caller has started a process of its own, also    *)
(* while another caller's fetch of the same URL is in flight, and every    *)
(* caller whose fetch gave video data has stored an entry with that data   *)
(* and the instant of its own completion.  Checked on SpecCache.           *)

C20_Missed(rq) ==
    /\ rq.pc # "idle"
    /\ rq.route = "/api/info"
    /\ ~Includes(rq.url, P_PLAYLIST) /\ ~Includes(rq.url, P_LIST)
    /\ \A e \in rq.seen : rq.calledAt - e.timestamp >= CACHE_DURATION

C20_ConcurrentMissesNotCoalesced ==
    \A a, b \in Reqs :
        (a # b /\ req[a].url = req[b].url
               /\ C20_Missed(req[a]) /\ C20_Missed(req[b])) =>
            /\ req[a].spawns + req[b].spawns = 2
            /\ \A r \in {a, b} :
                  /\ req[r].spawns = 1
                  /\ req[r].pc = "info" \/ req[r].metaExit # "none"
                  /\ req[r].data # {} =>
                        \E d \in req[r].data :
                            req[r].stored =
                                {[data |-> d, timestamp |-> req[r].fetchedAt]}

\* the second caller arrived later than the first and did not see the
\* first one's entry, so the first fetch was in flight; both have stored
\* what they fetched
C20_Witness ==
    \E a, b \in Reqs :
        /\ a # b /\ req[a].url = req[b].url
        /\ C20_Missed(req[a]) /\ C20_Missed(req[b])
        /\ req[a].calledAt < req[b].calledAt
        /\ req[b].calledAt <= req[a].fetchedAt
        /\ req[a].stored # {} /\ req[b].stored # {}
        /\ req[a].stored \cap req[b].seen = {}
        /\ req[a].data # req[b].data
        /\ req[a].spawns = 1 /\ req[b].spawns = 1

------------------------------------------------------------------------------
(* C21: nothing keeps the cleanup passes of one download away from the     *)
(* files of another download of the same title.  When a temporary-file     *)
(* pass of one request runs while the child of the other request is        *)
(* running, every file that child has written whose name holds the title   *)
(* and one of the markers of a temporary file is removed, unless its       *)
(* unlinkSync throws.  Checked on SpecPair.                                *)

C21_TempName(file) ==
    \/ \E m \in {EXT_TEMP, EXT_PART, EXT_WEBM, EXT_M4A, F136} : Includes(file, m)
    \/ Includes(file, EXT_MP4) /\ ~EndsWith(file, EXT_MP4)

C21_TempPassRuns(a) ==
    /\ Len(req'[a].passes) = Len(req[a].passes) + 1
    /\ req'[a].passes[Len(req'[a].passes)].kind = "temp"

C21_PassDeletesFilesOfRunningChild ==
    [][\A a, b \in Reqs :
          (a # b /\ C21_TempPassRuns(a) /\ req[b].child = "running") =>
              \A file \in req[b].wrote \cap Files(fs[downloadsDir]) :
                  (/\ Includes(file, req[a].title)
                   /\ C21_TempName(file)
                   /\ file \notin req'[a].locked)
                      => file \notin Files(fs'[downloadsDir])]_vars

\* the request that has ended has deleted a file that only the other
\* request's child, still running, has written
C21_Witness ==
    \E a, b \in Reqs :
        /\ a # b
        /\ req[a].child = "exited" /\ req[a].outcome = "ok"
        /\ req[b].child = "running"
        /\ req[a].title = req[b].title
        /\ (req[a].deleted \cap req[b].wrote) \ req[a].wrote # {}

------------------------------------------------------------------------------
(* C22: for every success response of a single-video or audio download,    *)
(* GET of the returned downloadUrl '/downloads/<filename>' is answered by   *)
(* the static route with the file the download has written, as long as    *)
(* that file is in the directory it was written to.  Stated on Spec; it    *)
(* does not hold.                                                          *)

C22_DownloadUrlServesArtifact ==
    \A r \in Reqs :
        (/\ req[r].res.kind = "file"
         /\ req[r].res.filename \in Files(fs[downloadsDir])) =>
            /\ ServeStatic(fs, req[r].res.filename).status = 200
            /\ ServeStatic(fs, req[r].res.filename).size
                   = fs[downloadsDir][req[r].res.filename]

------------------------------------------------------------------------------
(* C23: no entry whose age has reached CACHE_DURATION is in the Info       *)
(* Cache.  Stated on SpecCache; it does not hold.                          *)

C23_NoExpiredEntryRemains ==
    \A url \in DOMAIN videoInfoCache :
        now - videoInfoCache[url].timestamp < CACHE_DURATION

------------------------------------------------------------------------------
(* C24: what getVideoInfo returns and stores after its process has ended   *)
(* with output is decided by the first line of that output alone: a first  *)
(* line that is JSON with a title gives the payload of that title, stored  *)
(* at the instant of completion, whatever the later lines hold; any other   *)
(* first line gives an error and no entry.  Checked on SpecCache.          *)

C24_FirstLineGood(rq) ==
    /\ rq.metaExit = "ok"
    /\ rq.stdout # <<>>
    /\ rq.stdout[1].json /\ rq.stdout[1].title # <<>>

C24_FirstLineBad(rq) ==
    /\ rq.metaExit = "ok"
    /\ rq.stdout # <<>>
    /\ ~(rq.stdout[1].json /\ rq.stdout[1].title # <<>>)

C24_FirstLineIsAuthoritative ==
    \A r \in Reqs :
        /\ C24_FirstLineGood(req[r]) =>
              /\ req[r].data = {[title |-> req[r].stdout[1].title]}
              /\ req[r].stored =
                    {[data |-> [title |-> req[r].stdout[1].title],
                      timestamp |-> req[r].fetchedAt]}
              /\ req[r].route = "/api/info" =>
                    req[r].res = ResInfo([title |-> req[r].stdout[1].title])
        /\ C24_FirstLineBad(req[r]) =>
              /\ req[r].data = {} /\ req[r].stored = {}
              /\ req[r].res.kind = "error"

\* both cases with a second line that would give another answer
C24_Witness ==
    \E a, b \in Reqs :
        /\ C24_FirstLineGood(req[a]) /\ Len(req[a].stdout) > 1
        /\ req[a].stdout[2].json /\ req[a].stdout[2].title # req[a].stdout[1].title
        /\ req[a].stdout[2].title # <<>>
        /\ C24_FirstLineBad(req[b]) /\ Len(req[b].stdout) > 1
        /\ req[b].stdout[2].json /\ req[b].stdout[2].title # <<>>

------------------------------------------------------------------------------
(* C25: a request has started one process for the metadata call it has     *)
(* made (getVideoInfo on a miss, getPlaylistInfo, the listing of POST      *)
(* /api/formats) and one for its download, and no other.  Stated on Spec;  *)
(* it does not hold as it stands.                                          *)

C25_CallsMade(rq) ==
    (IF rq.metaExit # "none" THEN 1 ELSE 0) + (IF rq.child # "none" THEN 1 ELSE 0)

C25_OneProcessPerCall ==
    \A r \in Reqs :
        req[r].pc \in {"download", "done"} => req[r].spawns = C25_CallsMade(req[r])

\* C25 as amended: a request has started one process for each command it
\* has executed; getPlaylistInfo executes two, the listing and, once the
\* listing has given entries, the query of the playlist title.
C25_OneProcessPerCommand ==
    \A r \in Reqs :
        req[r].pc \in {"download", "done"} =>
            req[r].spawns = C25_CallsMade(req[r])
                              + (IF req[r].entries > 0 THEN 1 ELSE 0)

\* a playlist download that has ended: listing, title and download
C25_Witness ==
    \E r \in Reqs :
        /\ req[r].pc = "done" /\ req[r].child = "exited"
        /\ req[r].entries > 0
        /\ req[r].spawns = 3

------------------------------------------------------------------------------
(* C26: over all quality selectors, the format selection of a download     *)
(* handler takes exactly seven distinct format-selector strings.  Stated   *)
(* on SpecFormat; it does not hold as it stands.                           *)

C26_SevenSelectors ==
    fm.cur.handler # "" =>
        Cardinality({FormatOf(fm.cur.handler, quality) : quality \in Qualities}) = 7

C26_VideoSelectors ==
    {<<"18">>,
     <<"313+140/401+140/bestvideo[height<=2160]+bestaudio">>,
     <<"271+140/400+140/bestvideo[height<=1440]+bestaudio">>,
     <<"137+140/248+140/399+140/bestvideo[height<=1080]+bestaudio">>,
     <<"136+140/247+140/398+140/bestvideo[height<=720]+bestaudio">>,
     <<"135+140/244+140/397+140/bestvideo[height<=480]+bestaudio">>}

C26_PlaylistSelectors ==
    {<<"bestvideo[height<=", height,
       "][ext=mp4]+bestaudio[ext=m4a]/bestvideo[height<=", height,
       "]+bestaudio/best[height<=", height, "]">> :
         height \in {"2160", "1440", "1080", "720", "480", "360"}}
    \cup {<<"bestvideo[ext=mp4]+bestaudio[ext=m4a]/bestvideo+bestaudio/best">>,
          <<"best[ext=mp4]/best">>}

C26_SelectorsOf(handler) ==
    IF handler = "postPlaylist" THEN C26_PlaylistSelectors ELSE C26_VideoSelectors

\* C26 as amended: POST /api/download/video, handleVideoDownload and
\* handlePlaylistDownload select among six strings, POST
\* /api/download/playlist among eight, and each of these strings is selected
\* for some quality.
C26_SixAndEightSelectors ==
    /\ fm.cur.handler # "" => fm.cur.format \in C26_SelectorsOf(fm.cur.handler)
    /\ Cardinality(C26_VideoSelectors) = 6
    /\ Cardinality(C26_PlaylistSelectors) = 8
    /\ \A handler \in FormatHandlers :
          \A format \in C26_SelectorsOf(handler) :
              \E quality \in Qualities : FormatOf(handler, quality) = format

\* 'highest' and '720p' have given one handler the same string, which is
\* why the seven branches of the chain give six strings
C26_Witness ==
    /\ fm.prev.handler = "handleVideoDownload" /\ fm.prev.quality = "highest"
    /\ fm.cur.handler = "handleVideoDownload" /\ fm.cur.quality = "720p"
    /\ fm.prev.format = fm.cur.format

------------------------------------------------------------------------------
(* C27: GET /health is answered with status 200 and a body that reports    *)
(* the state of the server.  Stated on Spec; it does not hold.             *)

C27_HealthAnswered ==
    \A r \in Reqs :
        (req[r].method = "GET" /\ req[r].route = "/health") =>
            /\ req[r].res.status = 200
            /\ req[r].res.kind = "info"

------------------------------------------------------------------------------
(* C28: for one quality selector, POST /api/download/video,                 *)
(* handleVideoDownload, handlePlaylistDownload and POST                     *)
(* /api/download/playlist choose the same format-selector string.  Stated  *)
(* on SpecFormat, for two selections in a row; it does not hold.           *)

C28_HandlersAgreeOnFormat ==
    (/\ fm.prev.handler # "" /\ fm.cur.handler # ""
     /\ fm.prev.quality = fm.cur.quality) =>
        fm.prev.format = fm.cur.format

------------------------------------------------------------------------------
(* C29: two getVideoInfo calls for URLs without 'playlist' and 'list='     *)
(* whose processes fail in the same way (nonzero exit, or killed at the    *)
(* timeout) report errors of the same class, whatever the text of the      *)
(* URLs.  Stated on SpecCache; it does not hold.                           *)

\* the class of a message of getVideoInfo: the fixed messages are classes of
\* their own, the messages that quote the cause are one class
C29_Class(message) ==
    IF message # <<>> /\ Head(message) = "Failed to get video info: "
    THEN <<"Failed to get video info">>
    ELSE message

C29_FailedCall(rq) ==
    /\ rq.route = "/api/info"
    /\ ~Includes(rq.url, P_PLAYLIST) /\ ~Includes(rq.url, P_LIST)
    /\ rq.metaExit \in {"nonzero", "killed"}

C29_ErrorClassIgnoresUrl ==
    \A a, b \in Reqs :
        (/\ C29_FailedCall(req[a]) /\ C29_FailedCall(req[b])
         /\ req[a].metaExit = req[b].metaExit) =>
            C29_Class(req[a].res.error) = C29_Class(req[b].res.error)

------------------------------------------------------------------------------
(* C30: a POST /api/info request with a URL calls getPlaylistInfo when the *)
(* URL contains 'playlist' or 'list=' and getVideoInfo otherwise, and no   *)
(* such request is answered with the message that getVideoInfo gives for   *)
(* a playlist URL.  Checked on Spec.                                       *)

C30_Marked(url) ==
    \/ Includes(url, <<"p", "l", "a", "y", "l", "i", "s", "t">>)
    \/ Includes(url, <<"l", "i", "s", "t", "=">>)

C30_InfoArrives(r) ==
    /\ req[r].pc = "idle"
    /\ req'[r].route = "/api/info"
    /\ req'[r].url # <<>>

C30_InfoBranchesOnUrlText ==
    /\ [](\A r \in Reqs :
             req[r].route = "/api/info" =>
                 /\ req[r].res.error #
                       <<"This is a playlist URL. Please select \"Entire Playlist\" as download type.">>
                 /\ ~Includes(req[r].res.error,
                        <<"p", "l", "a", "y", "l", "i", "s", "t", " ", "U", "R", "L">>))
    /\ [][\A r \in Reqs :
             C30_InfoArrives(r) =>
                 IF C30_Marked(req'[r].url)
                 THEN req'[r].pc = "plinfo" /\ req'[r].spawns = 1
                 ELSE \/ req'[r].pc = "info" /\ req'[r].spawns = 1
                      \/ /\ req'[r].pc = "done" /\ req'[r].spawns = 0
                         /\ req'[r].res.kind = "info"
                         /\ \E e \in req'[r].seen : req'[r].res = ResInfo(e.data)]_vars

\* a URL of a video inside a list, answered with the listing
C30_Witness ==
    \E r \in Reqs :
        /\ req[r].route = "/api/info"
        /\ Includes(req[r].url, P_LIST) /\ ~Includes(req[r].url, P_PLAYLIST)
        /\ req[r].pc = "done" /\ req[r].res.kind = "info"
        /\ req[r].entries > 0 /\ req[r].spawns = 2

------------------------------------------------------------------------------
(* C31: a POST /api/download request with a url is handled by the playlist *)
(* handler exactly when type is 'playlist' (its first step is the listing  *)
(* of getPlaylistInfo, its download has the 30 minute timeout), by the     *)
(* audio handler exactly when type is 'audio' (its download selects        *)
(* 'bestaudio' and has no timeout), and by the video handler for every     *)
(* other type (its download selects from the video chain and has the 10    *)
(* minute timeout).  Checked on Spec.                                      *)

C31_Dispatched(rq) ==
    /\ rq.method = "POST" /\ rq.route = "/api/download"
    /\ rq.url # <<>>

C31_TimeoutSet(rq) ==
    IF rq.child = "none" THEN {}
    ELSE {timer.at - rq.start :
             timer \in {t \in rq.timers : t.kind = "timeout"}}

C31_OneHandlerByType ==
    /\ [](\A r \in Reqs :
             (C31_Dispatched(req[r]) /\ req[r].child = "running") =>
                 IF req[r].type = "playlist"
                 THEN /\ req[r].entries > 0
                      /\ req[r].format # <<"bestaudio">>
                      /\ C31_TimeoutSet(req[r]) = {1800000}
                 ELSE IF req[r].type = "audio"
                 THEN /\ req[r].entries = 0
                      /\ req[r].format = <<"bestaudio">>
                      /\ C31_TimeoutSet(req[r]) = {}
                 ELSE /\ req[r].entries = 0
                      /\ req[r].format =
                            <<"136+140/247+140/398+140/bestvideo[height<=720]+bestaudio">>
                      /\ C31_TimeoutSet(req[r]) = {600000})
    /\ [][\A r \in Reqs :
             (req[r].pc = "idle" /\ C31_Dispatched(req'[r])) =>
                 (req'[r].type = "playlist" <=> req'[r].pc = "plinfo")]_vars

\* an unrecognized type whose download runs as a video download
C31_Witness ==
    \E r \in Reqs :
        /\ C31_Dispatched(req[r])
        /\ req[r].type \notin {"absent", "video", "audio", "playlist"}
        /\ req[r].child = "running"
        /\ req[r].format # <<"bestaudio">>

------------------------------------------------------------------------------
(* C32: a request is answered at most once: the response a request has     *)
(* does not change in any later step, whether the exec callback, the       *)
(* timeout timer or a catch block runs.  The step in which the callback of *)
(* a child killed by the timeout timer runs changes neither the response   *)
(* nor the timers, so no cleanup pass is scheduled by it.  Checked on      *)
(* Spec.                                                                   *)

C32_KilledCallbackRuns(r) ==
    /\ req[r].child = "killed"
    /\ req'[r].child = "exited"

C32_AtMostOneResponse ==
    [][\A r \in Reqs :
          /\ req[r].res.kind # "none" =>
                /\ req'[r].res = req[r].res
                /\ req'[r].respondedAt = req[r].respondedAt
          /\ C32_KilledCallbackRuns(r) =>
                /\ req'[r].res = req[r].res
                /\ req'[r].res.kind = "error"
                /\ req'[r].timers = req[r].timers
                /\ req'[r].passes = req[r].passes]_vars

\* the timer has answered, the callback of the killed child has run
C32_Witness ==
    \E r \in Reqs :
        /\ req[r].outcome = "killed" /\ req[r].child = "exited"
        /\ req[r].res.error \in {<<"Download timeout after 10 minutes">>,
                                 <<"Playlist download timeout after 30 minutes">>}
        /\ req[r].passes = <<>>
        /\ \A timer \in req[r].timers : timer.kind = "timeout"

------------------------------------------------------------------------------
(* C33: a getVideoInfo call that fails leaves the Info Cache as it was.    *)
(* In the cache specification every request calls getVideoInfo, at its     *)
(* arrival (the marker test) or when the process of the call has ended     *)
(* (process error, timeout, empty output, a first line that does not       *)
(* parse, a first line without title); a step that ends such a call with   *)
(* an error response changes no entry of videoInfoCache.  Checked on       *)
(* SpecCache.                                                              *)

C33_CallFails(r) ==
    /\ req[r].pc \in {"idle", "info"}
    /\ req'[r].pc = "done"
    /\ req'[r].res.kind = "error"

C33_FailureLeavesCache ==
    [][\A r \in Reqs : C33_CallFails(r) => videoInfoCache' = videoInfoCache]_vars

\* a call that missed on an expired entry has failed on the output of its
\* process, and the expired entry is still the one the call saw
C33_Witness ==
    \E r \in Reqs :
        /\ req[r].pc = "done" /\ req[r].res.kind = "error"
        /\ req[r].metaExit = "ok"
        /\ req[r].seen # {}
        /\ req[r].url \in DOMAIN videoInfoCache
        /\ videoInfoCache[req[r].url] \in req[r].seen

------------------------------------------------------------------------------
(* C34: in every reachable state no key of videoInfoCache contains         *)
(* 'playlist' or 'list=' and every cached payload has a non-empty title;   *)
(* and a request whose url contains a marker and whose route calls         *)
(* getVideoInfo has seen no cache entry, has started no process and has    *)
(* the error response.  Checked on SpecCache.                              *)

C34_Marked(url) == Includes(url, P_PLAYLIST) \/ Includes(url, P_LIST)

C34_CallsGetVideoInfo(rq) ==
    /\ rq.pc # "idle"
    /\ rq.method = "POST" /\ rq.url # NO_URL
    /\ HandlerOf(rq) # "formats"
    /\ ~(HandlerOf(rq) \in PlaylistHandlers)
    /\ ~(HandlerOf(rq) = "info" /\ C34_Marked(rq.url))

C34_NoCollectionKeyInCache ==
    /\ \A u \in DOMAIN videoInfoCache :
          /\ ~C34_Marked(u)
          /\ videoInfoCache[u].data.title # <<>>
    /\ \A r \in Reqs :
          (C34_CallsGetVideoInfo(req[r]) /\ C34_Marked(req[r].url)) =>
              /\ req[r].seen = {}
              /\ req[r].spawns = 0
              /\ req[r].pc = "done"
              /\ req[r].res.kind = "error"

\* the cache holds an entry while a request with a marked url is refused
C34_Witness ==
    /\ DOMAIN videoInfoCache # {}
    /\ \E r \in Reqs :
          /\ C34_CallsGetVideoInfo(req[r]) /\ C34_Marked(req[r].url)
          /\ req[r].res.kind = "error"

------------------------------------------------------------------------------
(* C35: the cleanup passes of a single-video download delete no completed  *)
(* artifact of another request: no file they delete that the request's own *)
(* process did not write is an .mp3, or an .mp4 without a temp marker in   *)
(* its name.  Stated on Spec, where the downloads directory can hold the   *)
(* .mp3 of an earlier audio download of the same title; it does not hold.  *)

C35_Completed(file) ==
    \/ EndsWith(file, EXT_MP3)
    \/ EndsWith(file, EXT_MP4) /\ \A m \in TempMarkers : ~Includes(file, m)

C35_ForeignArtifactsKept ==
    \A r \in Reqs :
        HandlerOf(req[r]) \in VideoHandlers =>
            \A file \in req[r].deleted \ req[r].wrote : ~C35_Completed(file)

------------------------------------------------------------------------------
(* C36: the timeout timer of a download is never cancelled.  While a       *)
(* download that set the timer has not reached its deadline, the timer is  *)
(* pending whether or not the child has exited.  The step in which the     *)
(* timer of an exited child fires happens at the deadline, changes neither *)
(* the response nor any file, and calls kill once.  Stated on Spec; the    *)
(* call of kill does not hold for a child that exec ended for maxBuffer.   *)

C36_Deadline(rq) == rq.start + TimeoutTier(rq)

C36_TimerOf(rq) == [kind |-> "timeout", at |-> C36_Deadline(rq)]

C36_HasTimer(rq) ==
    /\ rq.child # "none"
    /\ HandlerOf(rq) \in VideoHandlers \cup {"handlePlaylistDownload"}

C36_FiresAfterExit(r) ==
    /\ C36_HasTimer(req[r])
    /\ req[r].child = "exited"
    /\ C36_TimerOf(req[r]) \in req[r].timers
    /\ C36_TimerOf(req[r]) \notin req'[r].timers

C36_NeverCancelled ==
    \A r \in Reqs :
        (C36_HasTimer(req[r]) /\ now < C36_Deadline(req[r])) =>
            C36_TimerOf(req[r]) \in req[r].timers

C36_SilentFiring(r) ==
    /\ now = C36_Deadline(req[r])
    /\ req'[r].res = req[r].res
    /\ req'[r].respondedAt = req[r].respondedAt
    /\ fs' = fs

C36_TimerKillsExitedChild ==
    /\ []C36_NeverCancelled
    /\ [][\A r \in Reqs :
            C36_FiresAfterExit(r) =>
                /\ C36_SilentFiring(r)
                /\ req'[r].kills = req[r].kills + 1]_vars

(* C36 as it holds: the timer is never cancelled and fires at the deadline *)
(* without a response or a change of a file; it calls kill on the exited   *)
(* child exactly when the child ended by itself (status 0 or nonzero), and *)
(* does nothing when exec had ended the child for exceeding maxBuffer.     *)
C36_TimerKillsUnlessExecKilled ==
    /\ []C36_NeverCancelled
    /\ [][\A r \in Reqs :
            C36_FiresAfterExit(r) =>
                /\ C36_SilentFiring(r)
                /\ req'[r].kills =
                      IF req[r].outcome = "maxBuffer" THEN req[r].kills
                      ELSE req[r].kills + 1
                /\ req[r].outcome = "maxBuffer" => req'[r].killed]_vars

\* the timer of a child that exited by itself has fired and called kill
C36_Witness ==
    \E r \in Reqs :
        /\ C36_HasTimer(req[r])
        /\ req[r].outcome \in {"ok", "nonzero"}
        /\ now >= C36_Deadline(req[r])
        /\ C36_TimerOf(req[r]) \notin req[r].timers
        /\ req[r].kills = 1
        /\ req[r].respondedAt < C36_Deadline(req[r])

------------------------------------------------------------------------------
(* C37: the directory of a playlist download, which its cleanup pass       *)
(* sweeps, is a proper subdirectory of the downloads directory: it is      *)
(* neither the downloads directory itself nor its parent, also for a title *)
(* that sanitizes to the empty string, to '.' or to '..'.  Stated on Spec; *)
(* it does not hold.                                                       *)

\* the parent of downloadsDir, as a path from downloadsDir
C37_Parent == <<".", ".">>

C37_PlaylistDirIsProperSubdirectory ==
    \A r \in Reqs :
        (HandlerOf(req[r]) \in PlaylistHandlers /\ req[r].child # "none") =>
            TargetDir(req[r]) \notin {downloadsDir, C37_Parent}

------------------------------------------------------------------------------
(* C38: getPlaylistInfo returns the lines of the listing that parse, in    *)
(* their order, and touches no entry of videoInfoCache; a call fails only  *)
(* when the listing is empty, when none of its lines parses, or when the   *)
(* process of the title lookup fails.  Stated on Spec; the list of the     *)
(* failures does not hold.                                                 *)

C38_Calls(rq) ==
    /\ rq.pc \notin {"idle", "plinfo"}
    /\ rq.method = "POST" /\ rq.url # NO_URL
    /\ UsesPlaylistInfo(rq)

C38_Failed(rq) ==
    /\ C38_Calls(rq)
    /\ rq.pc = "done" /\ rq.child = "none" /\ rq.res.kind = "error"

C38_Returned(rq) == C38_Calls(rq) /\ ~C38_Failed(rq) /\ rq.pc # "pltitle"

C38_Parsable(lines) == {i \in 1..Len(lines) : lines[i].json}

\* `list` holds exactly the lines of `lines` that parse, in the order of `lines`
C38_InOrder(list, lines) ==
    /\ Len(list) = Cardinality(C38_Parsable(lines))
    /\ \E f \in [1..Len(list) -> C38_Parsable(lines)] :
          /\ \A i, j \in 1..Len(list) : i < j => f[i] < f[j]
          /\ \A i \in 1..Len(list) : list[i] = lines[f[i]]

C38_ListingFailed(rq)    == rq.spawns = 1 /\ rq.metaExit # "ok"
C38_EmptyOutput(rq)      == rq.spawns = 1 /\ rq.metaExit = "ok" /\ rq.stdout = <<>>
C38_NoLineParses(rq)     ==
    rq.spawns = 1 /\ rq.metaExit = "ok" /\ C38_Parsable(rq.stdout) = {}
C38_TitleLookupFailed(rq) == rq.spawns = 2 /\ rq.metaExit # "ok"

C38_EntriesAndCache ==
    /\ [](\A r \in Reqs :
            /\ (C38_Returned(req[r]) \/ (C38_Calls(req[r]) /\ req[r].spawns >= 2)) =>
                  /\ C38_InOrder(req[r].list, req[r].stdout)
                  /\ req[r].entries = Len(req[r].list)
                  /\ req[r].list # <<>>
            /\ C38_Calls(req[r]) => req[r].seen = {} /\ req[r].stored = {})
    /\ [][\A r \in Reqs :
            (req[r].pc \in {"plinfo", "pltitle"} \/ req'[r].pc \in {"plinfo", "pltitle"})
                => videoInfoCache' = videoInfoCache]_vars

C38_FailsOnlyOnOutputOrTitle ==
    /\ C38_EntriesAndCache
    /\ [](\A r \in Reqs :
            C38_Failed(req[r]) =>
                \/ C38_EmptyOutput(req[r])
                \/ C38_NoLineParses(req[r])
                \/ C38_TitleLookupFailed(req[r]))

(* C38 as it holds: as above, and a call fails only when the listing       *)
(* process itself fails (nonzero exit, maxBuffer, the 30 s timeout), when  *)
(* its output is empty, when none of its lines parses, or when the process *)
(* of the title lookup fails; in every other case it returns.              *)
C38_FailsOnlyOnProcessOutputOrTitle ==
    /\ C38_EntriesAndCache
    /\ [](\A r \in Reqs :
            /\ C38_Failed(req[r]) <=>
                  /\ C38_Calls(req[r])
                  /\ req[r].child = "none"
                  /\ \/ C38_ListingFailed(req[r])
                     \/ C38_EmptyOutput(req[r])
                     \/ C38_NoLineParses(req[r])
                     \/ C38_TitleLookupFailed(req[r])
            /\ C38_Returned(req[r]) => req[r].spawns >= 2)

\* a call has returned two entries of a listing of three lines, the second
\* of which did not parse
C38_Witness ==
    \E r \in Reqs :
        /\ C38_Returned(req[r])
        /\ Len(req[r].stdout) = 3 /\ ~req[r].stdout[2].json
        /\ Len(req[r].list) = 2
        /\ req[r].list[1] # req[r].list[2]

====
